---- MODULE Spec2Model ----
(***************************************************************************)
(* CS2-DeepScope: the record request correlator (ProfileFetcher), the      *)
(* request route in front of it (APIServer), the coordinator connection    *)
(* manager (GCConnection) and the presence session manager (SteamAuth),    *)
(* as state machines over the event emitters they listen on.               *)
(*                                                                         *)
(* Node runs one handler at a time: an action is one handler, from its     *)
(* start to the first point where it waits for a timer, for I/O or for an  *)
(* event.  A wait on an already computed value (a microtask) does not let  *)
(* another event in, so it does not end an action.                         *)
(***************************************************************************)
EXTENDS Integers, Sequences, FiniteSets, TLC

VARIABLES
    enableFileCache,  \* ENABLE_FILE_CACHE === 'true'
    isConnected,      \* GCConnection.isConnected
    isReady,          \* GCConnection.isReady
    calls,            \* fetchProfile / route invocations, by number
    nextCall,         \* the next invocation's number
    respListeners,    \* listeners of 'playersProfile#<id>' on the coordinator client
    waiters,          \* waitForReady invocations, by number
    nextWaiter,       \* the next waitForReady invocation's number
    readyListeners,   \* once-listeners of 'connectedToGC' added by waitForReady
    statusListeners,  \* listeners of 'connectionStatus' added by waitForReady
    sharedSecret,     \* SteamAuth.sharedSecret is set
    loginKeyFile,     \* loginKey_<account>.txt
    disconnectCount,  \* SteamAuth.disconnectCount
    exited,           \* process.exit(1) was called by the disconnect watchdog
    streak,           \* error/disconnected events since the last 'loggedOn'
    wasReset,         \* a 'loggedOn' has reset a counter that was not 0
    logins,           \* login() invocations, by number
    nextLogin,        \* the next login() invocation's number
    loggedOnListeners, \* per-login once-listeners of 'loggedOn' on the presence client
    errorListeners,   \* per-login once-listeners of 'error' on the presence client
    guard,            \* what became of the last 'steamGuardCode' prompt
    connectTry,       \* what the last attemptConnection() on its own came to
    response,         \* the profile a 'playersProfile#<id>' event carried
    parsedProfile,    \* what parseProfileResponse made of it
    accountName,      \* SteamAuth.accountName
    tokenFile,        \* token_<account>.json
    tokenSaved,       \* the last token saveSessionData wrote to the token file
    tokenLoaded,      \* what loadMachineAuthToken returned last
    main,             \* main() of index.ts: where it stands, its locals, its timers
    last              \* the coordinator-side handler that ran last: its kind, the
                      \* call it belongs to (a status code, or the number of
                      \* handlers an emit called), the identifier, and for an
                      \* event or a method of the connection manager
                      \* isGcReady() before it ran

authVars == <<sharedSecret, loginKeyFile, disconnectCount, exited, streak, wasReset,
              logins, nextLogin, loggedOnListeners, errorListeners, guard>>

storeVars == <<accountName, tokenFile, tokenSaved, tokenLoaded>>
parseVars == <<response, parsedProfile>>

vars == <<enableFileCache, isConnected, isReady, calls, nextCall, respListeners,
          waiters, nextWaiter, readyListeners, statusListeners, authVars, storeVars,
          parseVars, connectTry, main, last>>

fetchVars == <<calls, nextCall, respListeners>>
gcFlags == <<isConnected, isReady>>
waitVars == <<waiters, nextWaiter, readyListeners, statusListeners>>

----------------------------------------------------------------------------
(* Bounds *)

MaxCalls == 2
MaxWaiters == 3
MaxLogins == 1
MaxChains == 2
MaxTokenLen == 2
MaxMedals == 3
MaxMedalId == 2

----------------------------------------------------------------------------
(* Identifiers: strings as sequences of characters *)

Digits == {"0", "1", "2", "3", "4", "5", "6", "7", "8", "9"}

IdLen == 17

Rep(ch, n) == [i \in 1..n |-> ch]

SteamIdA == <<"7","6","5","6","1","1","9","9","4","4","1","0","1","6","4","3","8">>
SteamIdB == Rep("1", IdLen)
ShortId == Rep("7", IdLen - 1)
LongId == Rep("7", IdLen + 1)
AlphaId == [Rep("7", IdLen) EXCEPT ![9] = "x"]
EmptyId == <<>>

Identifiers == {SteamIdA, SteamIdB, ShortId, LongId, AlphaId, EmptyId}

\* /^\d{17}$/ accepted a string with 17 digits in front and more behind
ValidSteamId_Unanchored(s) ==
    /\ Len(s) >= IdLen
    /\ \A i \in 1..IdLen : s[i] \in Digits

\* /^\d{17}$/.test(steamId64)
ValidSteamId(s) ==
    /\ Len(s) = IdLen
    /\ \A i \in 1..Len(s) : s[i] \in Digits

----------------------------------------------------------------------------
(* EventEmitter *)

Range(f) == {f[i] : i \in DOMAIN f}

\* emitter.on / emitter.once: the listener goes to the end of the list
AddListener(list, h) == Append(list, h)

LastIndexOf(list, h) ==
    IF \E i \in DOMAIN list : list[i] = h
    THEN CHOOSE i \in DOMAIN list :
            /\ list[i] = h
            /\ \A j \in DOMAIN list : list[j] = h => j <= i
    ELSE 0

\* emitter.removeListener(event, h): drops the most recently added instance of
\* h (a once-wrapper of h counts as h), and nothing when h is not listed
RemoveListener(list, h) ==
    LET k == LastIndexOf(list, h)
    IN IF k = 0 THEN list
       ELSE [i \in 1..(Len(list) - 1) |-> IF i < k THEN list[i] ELSE list[i + 1]]

\* emitter.emit(event): every listener registered at the time of the emit is
\* called, in registration order
EmitTargets(list) == list

\* the once-wrappers of the listeners an emit calls remove themselves
AfterOnce(list, targets) ==
    SelectSeq(list, LAMBDA h : h \notin Range(targets))

----------------------------------------------------------------------------
(* main() of index.ts: its locals and the listeners it registers *)

ChainIds == 1..MaxChains

\* for (attempt = 1; attempt <= maxRetries; ...)
maxRetries == 3

\* one run of the setTimeout callback the 'loggedOn' listener schedules
NoChain == [pc |-> "unused", steps |-> <<>>]

\* main() before its first statement.  pc is the await main() stands at;
\* backgroundRetry and gcReconnectInterval are the two timer handles (FALSE
\* and 0: null), liveBg and liveRc the interval timers that are running,
\* bgBusy and rcBusy those whose callback is at its await; replaced tells
\* that a recovery callback found a timer in the handle; downSince tells
\* that the presence client, since main() called login(), has emitted
\* 'disconnected' and no 'loggedOn' after it
NoMain ==
    [pc |-> "login", trace |-> <<>>, gcCreated |-> FALSE, serverStarted |-> FALSE,
     monitoring |-> FALSE, isSteamLoggedIn |-> TRUE, hasInitialLogin |-> FALSE,
     attempt |-> 0, waiter |-> 0, connected |-> FALSE, fails |-> 0,
     backgroundRetry |-> FALSE, liveBg |-> FALSE, bgBusy |-> FALSE,
     bgStarted |-> FALSE, gcReconnectInterval |-> 0, liveRc |-> {}, rcBusy |-> {},
     chains |-> [c \in ChainIds |-> NoChain], nextChain |-> 1,
     signals |-> FALSE, shutdown |-> "none", exitCode |-> -1, downSince |-> FALSE,
     again |-> "none", logOffs |-> 0, downSteps |-> <<>>, replaced |-> FALSE]

\* clearInterval(gcReconnectInterval); gcReconnectInterval = null
ClearReconnectInterval(m) ==
    [m EXCEPT !.liveRc = @ \ {m.gcReconnectInterval}, !.gcReconnectInterval = 0]

\* the handle was set to null and the timer left running
ClearBackgroundRetry_HandleOnly(m) ==
    [m EXCEPT !.backgroundRetry = FALSE]

\* clearInterval(backgroundRetry); backgroundRetry = null
ClearBackgroundRetry(m) ==
    IF m.backgroundRetry
    THEN [m EXCEPT !.liveBg = FALSE, !.backgroundRetry = FALSE]
    ELSE m

\* main's 'loggedOn' listener scheduled the recovery callback and left
\* isSteamLoggedIn as it was
MainOnLoggedOn_KeepsFlag(m) ==
    IF ~m.monitoring THEN m
    ELSE IF m.hasInitialLogin /\ ~m.isSteamLoggedIn
    THEN [m EXCEPT !.chains[m.nextChain] = [pc |-> "steamInitDelay", steps |-> <<>>],
                   !.nextChain = @ + 1]
    ELSE IF ~m.hasInitialLogin THEN [m EXCEPT !.isSteamLoggedIn = TRUE]
    ELSE m

\* main's 'loggedOn' listener: past the grace period and after a disconnect
\* it schedules the recovery callback; within the grace period it only marks
MainOnLoggedOn(m) ==
    IF ~m.monitoring THEN m
    ELSE IF m.hasInitialLogin /\ ~m.isSteamLoggedIn
    THEN [m EXCEPT !.isSteamLoggedIn = TRUE,
                   !.chains[m.nextChain] = [pc |-> "steamInitDelay", steps |-> <<>>],
                   !.nextChain = @ + 1]
    ELSE IF ~m.hasInitialLogin THEN [m EXCEPT !.isSteamLoggedIn = TRUE]
    ELSE m

\* main's 'disconnected' listener
MainOnDisconnected(m) ==
    IF ~m.monitoring THEN m
    ELSE ClearReconnectInterval([m EXCEPT !.isSteamLoggedIn = FALSE])

\* the rest of main() once the retry loop is over: the background timer when
\* no attempt connected, then the signal handlers
MainAfterLoop(m) ==
    LET m1 == IF m.connected THEN m
              ELSE [m EXCEPT !.backgroundRetry = TRUE, !.liveBg = TRUE,
                             !.bgStarted = TRUE,
                             !.trace = Append(@, "backgroundRetry")]
    IN [m1 EXCEPT !.pc = "running", !.signals = TRUE, !.waiter = 0]

\* await gcConnection.waitForReady() returned: connected = true; break
MainWaitResolved(m) ==
    MainAfterLoop([m EXCEPT !.connected = TRUE])

\* await gcConnection.waitForReady() threw: a delay before the next attempt,
\* or the end of the loop
MainWaitRejected(m) ==
    LET m1 == [m EXCEPT !.fails = @ + 1]
    IN IF m.attempt < maxRetries
       THEN [m1 EXCEPT !.pc = "retryDelay", !.waiter = 0,
                       !.trace = Append(@, "delay")]
       ELSE MainAfterLoop(m1)

----------------------------------------------------------------------------
(* GCConnection: the state flags and their handlers *)

GcState == [isConnected |-> isConnected, isReady |-> isReady]

\* isGcReady()
IsGcReady == isReady /\ isConnected

\* 'connectedToGC'
OnConnectedToGC(st) == [isConnected |-> TRUE, isReady |-> TRUE]

\* the 'disconnectedFromGC' handler only logged
OnDisconnectedFromGC_LogsOnly(st, reason) == st

\* 'disconnectedFromGC'
OnDisconnectedFromGC(st, reason) == [isConnected |-> FALSE, isReady |-> FALSE]

\* 'connectionStatus' took status 4 (Connected) for readiness
OnConnectionStatus_TrustsStatus(st, status) ==
    IF status = 2 THEN [isConnected |-> FALSE, isReady |-> FALSE]
    ELSE IF status = 4 THEN [isConnected |-> TRUE, isReady |-> TRUE]
    ELSE IF status # 3 THEN [st EXCEPT !.isReady = FALSE]
    ELSE st

\* 'connectionStatus' reset the flags on status 2 only
OnConnectionStatus_OnlyTwo(st, status) ==
    IF status = 2 THEN [isConnected |-> FALSE, isReady |-> FALSE]
    ELSE st

\* 'connectionStatus'
OnConnectionStatus(st, status) ==
    IF status = 2 THEN [isConnected |-> FALSE, isReady |-> FALSE]
    ELSE IF status = 4 THEN st
    ELSE IF status # 3 THEN [st EXCEPT !.isReady = FALSE]
    ELSE st

\* 'error' cleared isConnected and left isReady
OnGcError_KeepsReady(st) == [st EXCEPT !.isConnected = FALSE]

\* 'error'
OnGcError(st) == [isConnected |-> FALSE, isReady |-> FALSE]

StatusCodes == 0..4
Reasons == 1..4

----------------------------------------------------------------------------
(* ProfileFetcher.fetchProfile and the /api/profile/:steamId64 route *)

CallIds == 1..MaxCalls

Outcomes == {"none", "resolved", "invalidId", "timeout", "sendError", "saveError"}

\* One invocation.  outcome is the state of the promise fetchProfile returned,
\* http the status the route answered with (0: none, or not called by the
\* route), answers the number of responses the route sent, message the error
\* message in the response, heard whether the call's listener was on the
\* client when requestPlayersProfile was called
NoCall ==
    [phase |-> "unused", outcome |-> "none", id |-> EmptyId, viaApi |-> FALSE,
     http |-> 0, timer |-> FALSE, regs |-> 0, deregs |-> 0, runs |-> 0,
     settles |-> 0, sent |-> FALSE, readyAtSend |-> FALSE, threw |-> FALSE,
     heard |-> FALSE, answers |-> 0, message |-> "none"]

\* how requestPlayersProfile behaves on one call: it returns, it throws, or
\* the client has no such method
SendResults == {"ok", "throws", "missing"}

\* the route answered every failed fetch with 503
RouteAnswer_AlwaysUnavailable(rec, outcome) ==
    IF outcome = "resolved"
    THEN [rec EXCEPT !.http = 200, !.answers = @ + 1]
    ELSE [rec EXCEPT !.http = 503, !.answers = @ + 1, !.message = outcome]

\* the route after await fetchProfile(...): res.json(profile), or from its
\* catch res.status(500).json({error, message})
RouteAnswer(rec, outcome) ==
    IF outcome = "resolved"
    THEN [rec EXCEPT !.http = 200, !.answers = @ + 1]
    ELSE [rec EXCEPT !.http = 500, !.answers = @ + 1, !.message = outcome]

\* the route's early answers: 400, 503, or 200 from the file cache
RouteReturn(rec, status) ==
    [rec EXCEPT !.phase = "settled", !.http = status, !.answers = @ + 1]

\* resolve(...) / reject(...): the first one decides the promise; the route's
\* await then answers
Settle(rec, outcome) ==
    IF rec.outcome # "none"
    THEN [rec EXCEPT !.settles = @ + 1]
    ELSE LET r == [rec EXCEPT !.phase = "settled", !.outcome = outcome,
                              !.settles = @ + 1]
         IN IF rec.viaApi THEN RouteAnswer(r, outcome) ELSE r

\* the listeners of 'playersProfile#<id>' with call c's handler deregistered
Deregister(lst, id, c) == [lst EXCEPT ![id] = RemoveListener(lst[id], c)]

\* how many listeners a deregistration took out
Removed(before, after, id) == Len(before[id]) - Len(after[id])

\* the catch block of the send forgot the listener
SendFailed_KeepsListener(rec, lst, c) ==
    [call |-> Settle([rec EXCEPT !.timer = FALSE], "sendError"), lst |-> lst]

\* the catch block of the send: clearTimeout, removeListener, reject
SendFailed(rec, lst, c) ==
    LET after == Deregister(lst, rec.id, c)
    IN [call |-> Settle([rec EXCEPT !.timer = FALSE,
                                    !.deregs = @ + Removed(lst, after, rec.id)],
                        "sendError"),
        lst |-> after]

\* fetchProfile joined the listener already waiting on the identifier instead
\* of registering its own
StartFetch_SharesListener(rec, lst, c, id, send, ready) ==
    IF ~ValidSteamId(id)
    THEN [call |-> Settle([rec EXCEPT !.id = id], "invalidId"), lst |-> lst]
    ELSE LET reg == IF lst[id] = <<>> THEN [lst EXCEPT ![id] = AddListener(@, c)]
                    ELSE lst
             r1 == [rec EXCEPT !.id = id, !.phase = "pending", !.timer = TRUE,
                               !.regs = @ + (IF lst[id] = <<>> THEN 1 ELSE 0)]
             r2 == IF send = "missing" THEN r1
                   ELSE [r1 EXCEPT !.sent = TRUE, !.readyAtSend = ready]
         IN IF send = "ok" THEN [call |-> r2, lst |-> reg]
            ELSE SendFailed(r2, reg, c)

\* fetchProfile called requestPlayersProfile before once(...)
StartFetch_SendsFirst(rec, lst, c, id, send, ready) ==
    IF ~ValidSteamId(id)
    THEN [call |-> Settle([rec EXCEPT !.id = id], "invalidId"), lst |-> lst]
    ELSE LET reg == [lst EXCEPT ![id] = AddListener(@, c)]
             r1 == [rec EXCEPT !.id = id, !.phase = "pending", !.timer = TRUE,
                               !.regs = @ + 1]
             r2 == IF send = "missing" THEN r1
                   ELSE [r1 EXCEPT !.sent = TRUE, !.readyAtSend = ready,
                                   !.heard = c \in Range(lst[id])]
         IN IF send = "ok" THEN [call |-> r2, lst |-> reg]
            ELSE SendFailed(r2, reg, c)

\* the body of fetchProfile's promise: validate, once(...), setTimeout(...),
\* requestPlayersProfile(...)
StartFetch(rec, lst, c, id, send, ready) ==
    IF ~ValidSteamId(id)
    THEN [call |-> Settle([rec EXCEPT !.id = id], "invalidId"), lst |-> lst]
    ELSE LET reg == [lst EXCEPT ![id] = AddListener(@, c)]
             r1 == [rec EXCEPT !.id = id, !.phase = "pending", !.timer = TRUE,
                               !.regs = @ + 1]
             r2 == IF send = "missing" THEN r1
                   ELSE [r1 EXCEPT !.sent = TRUE, !.readyAtSend = ready,
                                   !.heard = c \in Range(reg[id])]
         IN IF send = "ok" THEN [call |-> r2, lst |-> reg]
            ELSE SendFailed(r2, reg, c)

\* the timer's callback forgot the listener
OnTimeout_KeepsListener(rec, lst, c) ==
    [call |-> Settle([rec EXCEPT !.timer = FALSE], "timeout"), lst |-> lst]

\* the timer's callback: removeListener, reject
OnTimeout(rec, lst, c) ==
    LET after == Deregister(lst, rec.id, c)
    IN [call |-> Settle([rec EXCEPT !.timer = FALSE,
                                    !.deregs = @ + Removed(lst, after, rec.id)],
                        "timeout"),
        lst |-> after]

\* responseHandler after its awaits: removeListener, then resolve, or reject
\* with what saveProfileToFile threw
FinishResponse(rec, lst, c, saveOk) ==
    LET after == Deregister(lst, rec.id, c)
    IN [call |-> Settle([rec EXCEPT !.deregs = @ + Removed(lst, after, rec.id)],
                        IF saveOk THEN "resolved" ELSE "saveError"),
        lst |-> after]

\* responseHandler cancelled the timer before it threw on a response that is
\* no object
ResponseHandlerStart_ClearsThenThrows(rec, isObject) ==
    IF ~isObject
    THEN [rec EXCEPT !.runs = @ + 1, !.threw = TRUE, !.timer = FALSE]
    ELSE [rec EXCEPT !.runs = @ + 1, !.timer = FALSE, !.phase = "handling"]

\* responseHandler up to its first await: a response that is no object throws
\* before clearTimeout; any object clears the timer and is parsed
ResponseHandlerStart(rec, isObject) ==
    IF ~isObject
    THEN [rec EXCEPT !.runs = @ + 1, !.threw = TRUE]
    ELSE [rec EXCEPT !.runs = @ + 1, !.timer = FALSE, !.phase = "handling"]

\* fetchProfile(id), called directly
FetchProfile(id, send) ==
    /\ nextCall <= MaxCalls
    /\ LET c == nextCall
           r == StartFetch(NoCall, respListeners, c, id, send, IsGcReady)
       IN /\ calls' = [calls EXCEPT ![c] = r.call]
          /\ respListeners' = r.lst
          /\ last' = [kind |-> "fetch", call |-> c, id |-> id, ready |-> FALSE]
    /\ nextCall' = nextCall + 1
    /\ UNCHANGED <<connectTry, parseVars, storeVars, main, authVars, enableFileCache, gcFlags, waitVars>>

\* GET /api/profile/:steamId64, to the await of the cache lookup, or to the
\* await of fetchProfile when the file cache is off
ApiRequest(id, send) ==
    /\ nextCall <= MaxCalls
    /\ LET c == nextCall
           rec == [NoCall EXCEPT !.viaApi = TRUE, !.id = id]
       IN /\ IF ~ValidSteamId(id)
             THEN /\ calls' = [calls EXCEPT ![c] = RouteReturn(rec, 400)]
                  /\ UNCHANGED respListeners
             ELSE IF ~IsGcReady
             THEN /\ calls' = [calls EXCEPT ![c] = RouteReturn(rec, 503)]
                  /\ UNCHANGED respListeners
             ELSE IF enableFileCache
             THEN /\ calls' = [calls EXCEPT ![c] = [rec EXCEPT !.phase = "cacheLookup"]]
                  /\ UNCHANGED respListeners
             ELSE LET r == StartFetch(rec, respListeners, c, id, send, IsGcReady)
                  IN /\ calls' = [calls EXCEPT ![c] = r.call]
                     /\ respListeners' = r.lst
          /\ last' = [kind |-> "api", call |-> c, id |-> id, ready |-> FALSE]
    /\ nextCall' = nextCall + 1
    /\ UNCHANGED <<connectTry, parseVars, storeVars, main, authVars, enableFileCache, gcFlags, waitVars>>

\* the route after loadProfileFromFile: answer from the cache, or fetchProfile
ApiCacheDone(c, serveCached, send) ==
    /\ calls[c].phase = "cacheLookup"
    /\ IF serveCached
       THEN /\ calls' = [calls EXCEPT ![c] = RouteReturn(@, 200)]
            /\ UNCHANGED respListeners
       ELSE LET r == StartFetch(calls[c], respListeners, c, calls[c].id, send, IsGcReady)
            IN /\ calls' = [calls EXCEPT ![c] = r.call]
               /\ respListeners' = r.lst
    /\ last' = [kind |-> "cacheDone", call |-> c, id |-> calls[c].id, ready |-> FALSE]
    /\ UNCHANGED <<connectTry, parseVars, storeVars, main, authVars, enableFileCache, gcFlags, nextCall, waitVars>>

\* the coordinator client emits 'playersProfile#<id>': every handler listed is
\* taken off the list (once) and run; with the file cache off nothing but
\* microtasks separates a handler's start from its end
ProfileResponse(id, isObject) ==
    /\ ValidSteamId(id)
    /\ LET targets == EmitTargets(respListeners[id])
           lst == [respListeners EXCEPT ![id] = AfterOnce(@, targets)]
           started(c) == ResponseHandlerStart(
                             [calls[c] EXCEPT !.deregs = @ + 1], isObject)
       IN /\ calls' = [c \in CallIds |->
                         IF c \notin Range(targets) THEN calls[c]
                         ELSE IF isObject /\ ~enableFileCache
                              THEN FinishResponse(started(c), lst, c, TRUE).call
                              ELSE started(c)]
          /\ respListeners' = lst
    /\ last' = [kind |-> "response", call |-> Len(EmitTargets(respListeners[id])), id |-> id,
                ready |-> FALSE]
    /\ UNCHANGED <<connectTry, parseVars, storeVars, main, authVars, enableFileCache, gcFlags, nextCall, waitVars>>

\* responseHandler resumes after saveProfileToFile (file cache on)
ResponseSaved(c, saveOk) ==
    /\ calls[c].phase = "handling"
    /\ LET r == FinishResponse(calls[c], respListeners, c, saveOk)
       IN /\ calls' = [calls EXCEPT ![c] = r.call]
          /\ respListeners' = r.lst
    /\ last' = [kind |-> "saved", call |-> c, id |-> calls[c].id, ready |-> FALSE]
    /\ UNCHANGED <<connectTry, parseVars, storeVars, main, authVars, enableFileCache, gcFlags, nextCall, waitVars>>

\* the timer's callback took the coordinator for lost
Timeout_DropsReady(c) ==
    /\ calls[c].timer
    /\ LET r == OnTimeout(calls[c], respListeners, c)
       IN /\ calls' = [calls EXCEPT ![c] = r.call]
          /\ respListeners' = r.lst
    /\ last' = [kind |-> "timeout", call |-> c, id |-> calls[c].id, ready |-> FALSE]
    /\ isReady' = FALSE
    /\ UNCHANGED <<connectTry, parseVars, storeVars, main, authVars, enableFileCache, isConnected,
                   nextCall, waitVars>>

\* the request timer of call c fires
Timeout(c) ==
    /\ calls[c].timer
    /\ LET r == OnTimeout(calls[c], respListeners, c)
       IN /\ calls' = [calls EXCEPT ![c] = r.call]
          /\ respListeners' = r.lst
    /\ last' = [kind |-> "timeout", call |-> c, id |-> calls[c].id, ready |-> FALSE]
    /\ UNCHANGED <<connectTry, parseVars, storeVars, main, authVars, enableFileCache, gcFlags, nextCall, waitVars>>

----------------------------------------------------------------------------
(* GCConnection.waitForReady, attemptConnection and the coordinator's events *)

WaiterIds == 1..MaxWaiters

NoWaiter ==
    [phase |-> "unused", outcome |-> "none", timer |-> FALSE, immediate |-> FALSE,
     settles |-> 0]

SettleWait(rec, outcome) ==
    IF rec.outcome # "none"
    THEN [rec EXCEPT !.settles = @ + 1]
    ELSE [rec EXCEPT !.phase = "settled", !.outcome = outcome, !.settles = @ + 1]

\* readyHandler left its 'connectionStatus' listener behind
ReadyHandler_KeepsStatus(rec, status, w) ==
    [waiter |-> SettleWait([rec EXCEPT !.timer = FALSE], "resolved"),
     status |-> status]

\* readyHandler: clearTimeout, removeListener('connectionStatus'), resolve
ReadyHandler(rec, status, w) ==
    [waiter |-> SettleWait([rec EXCEPT !.timer = FALSE], "resolved"),
     status |-> RemoveListener(status, w)]

\* the timer's callback of waitForReady: both listeners off, reject
WaitTimedOut(rec, ready, status, w) ==
    [waiter |-> SettleWait([rec EXCEPT !.timer = FALSE], "timeout"),
     ready |-> RemoveListener(ready, w),
     status |-> RemoveListener(status, w)]

\* the readyHandlers an emit of 'connectedToGC' calls, run in order
RECURSIVE RunReadyHandlers(_, _, _)
RunReadyHandlers(targets, ws, status) ==
    IF targets = <<>> THEN [waiters |-> ws, status |-> status]
    ELSE LET w == Head(targets)
             r == ReadyHandler(ws[w], status, w)
         IN RunReadyHandlers(Tail(targets), [ws EXCEPT ![w] = r.waiter], r.status)

Mark(kind) == last' = [kind |-> kind, call |-> 0, id |-> EmptyId, ready |-> IsGcReady]

SetGcState(st) ==
    /\ isConnected' = st.isConnected
    /\ isReady' = st.isReady

\* the coordinator client emits 'connectedToGC': the manager's handler first,
\* then the once-listeners of the waitForReady calls in flight; main() goes on
\* when the call it awaits is one of them
GcConnected ==
    /\ SetGcState(OnConnectedToGC(GcState))
    /\ LET targets == EmitTargets(readyListeners)
           r == RunReadyHandlers(targets, waiters, statusListeners)
       IN /\ readyListeners' = AfterOnce(readyListeners, targets)
          /\ waiters' = r.waiters
          /\ statusListeners' = r.status
          /\ main' = IF main.pc = "waiting" /\ main.waiter \in Range(targets)
                     THEN MainWaitResolved(main)
                     ELSE main
    /\ Mark("connectedToGC")
    /\ UNCHANGED <<connectTry, parseVars, storeVars, authVars, enableFileCache, fetchVars, nextWaiter>>

\* the coordinator client emits 'disconnectedFromGC'
GcDisconnected(reason) ==
    /\ SetGcState(OnDisconnectedFromGC(GcState, reason))
    /\ Mark("disconnectedFromGC")
    /\ UNCHANGED <<connectTry, parseVars, storeVars, main, authVars, enableFileCache, fetchVars, waitVars>>

\* the coordinator client emits 'connectionStatus'; the statusHandlers of
\* waitForReady are silent
GcConnectionStatus(status) ==
    /\ SetGcState(OnConnectionStatus(GcState, status))
    /\ last' = [kind |-> "connectionStatus", call |-> status, id |-> EmptyId, ready |-> IsGcReady]
    /\ UNCHANGED <<connectTry, parseVars, storeVars, main, authVars, enableFileCache, fetchVars, waitVars>>

\* the coordinator client emits 'error'
GcError ==
    /\ SetGcState(OnGcError(GcState))
    /\ Mark("gcError")
    /\ UNCHANGED <<connectTry, parseVars, storeVars, main, authVars, enableFileCache, fetchVars, waitVars>>

\* the body of waitForReady(): done at once when isReady, else a timer and
\* two listeners
WaitForReadyCall ==
    /\ nextWaiter <= MaxWaiters
    /\ LET w == nextWaiter
       IN /\ IF isReady
             THEN /\ waiters' = [waiters EXCEPT ![w] =
                        SettleWait([NoWaiter EXCEPT !.immediate = TRUE], "resolved")]
                  /\ UNCHANGED <<readyListeners, statusListeners>>
             ELSE /\ waiters' = [waiters EXCEPT ![w] =
                        [NoWaiter EXCEPT !.phase = "waiting", !.timer = TRUE]]
                  /\ statusListeners' = AddListener(statusListeners, w)
                  /\ readyListeners' = AddListener(readyListeners, w)
          /\ last' = [kind |-> "waitForReady", call |-> w, id |-> EmptyId, ready |-> IsGcReady]
    /\ nextWaiter' = nextWaiter + 1

\* waitForReady(), called on its own
WaitForReady ==
    /\ WaitForReadyCall
    /\ UNCHANGED <<connectTry, parseVars, storeVars, main, authVars, enableFileCache, gcFlags, fetchVars>>

\* the timer of waitForReady call w fires; main() goes on when it awaits
\* call w
WaitTimeout(w) ==
    /\ waiters[w].timer
    /\ LET r == WaitTimedOut(waiters[w], readyListeners, statusListeners, w)
       IN /\ waiters' = [waiters EXCEPT ![w] = r.waiter]
          /\ readyListeners' = r.ready
          /\ statusListeners' = r.status
    /\ main' = IF main.pc = "waiting" /\ main.waiter = w
               THEN MainWaitRejected(main)
               ELSE main
    /\ last' = [kind |-> "waitTimeout", call |-> w, id |-> EmptyId, ready |-> IsGcReady]
    /\ UNCHANGED <<connectTry, parseVars, storeVars, authVars, enableFileCache, gcFlags, fetchVars, nextWaiter>>

\* the methods the coordinator client may offer to attemptConnection
Capabilities == {"connect", "launch", "requestSession"}

\* if (gc.connect) ... else if (gc.launch) ... else if (gc.requestSession)
Invoked(offered) ==
    IF "connect" \in offered THEN "connect"
    ELSE IF "launch" \in offered THEN "launch"
    ELSE IF "requestSession" \in offered THEN "requestSession"
    ELSE "none"

NoTry == [invoked |-> "none", threw |-> FALSE, outcome |-> "none"]

\* what the method threw came out of attemptConnection
Attempt_Propagates(offered, throws) ==
    LET threw == throws /\ Invoked(offered) # "none"
    IN [invoked |-> Invoked(offered), threw |-> threw,
        outcome |-> IF threw THEN "rejected" ELSE "resolved"]

\* attemptConnection(): one method at most is called, what it throws is
\* caught, the async function returns
Attempt(offered, throws) ==
    [invoked |-> Invoked(offered),
     threw |-> throws /\ Invoked(offered) # "none",
     outcome |-> "resolved"]

\* attemptConnection(): the method called may throw; nothing of the manager
\* changes either way
AttemptConnection(offered, throws) ==
    /\ Mark("attemptConnection")
    /\ connectTry' = Attempt(offered, throws)
    /\ UNCHANGED <<parseVars, storeVars, main, authVars, enableFileCache, gcFlags, fetchVars, waitVars>>

\* attemptConnection() followed in the same turn by waitForReady(): the turn
\* ends with what waitForReady() did
ConnectThenWait == WaitForReadyCall

\* GET /api/health reads isGcReady()
Health ==
    /\ Mark("health")
    /\ UNCHANGED <<connectTry, parseVars, storeVars, main, authVars, enableFileCache, gcFlags, fetchVars, waitVars>>


----------------------------------------------------------------------------
(* SteamAuth: the key file, login() and the watchdog *)

LoginIds == 1..MaxLogins

MAX_DISCONNECTS == 5

\* TIMING.TOKEN_EXTRACTION_RETRY_DELAYS_MS.length
TokenRetries == 3

Whitespace == {" ", "\n"}

\* String.prototype.trim
RECURSIVE TrimLeft(_)
TrimLeft(s) ==
    IF s # <<>> /\ Head(s) \in Whitespace THEN TrimLeft(Tail(s)) ELSE s

RECURSIVE TrimRight(_)
TrimRight(s) ==
    IF s # <<>> /\ s[Len(s)] \in Whitespace
    THEN TrimRight(SubSeq(s, 1, Len(s) - 1))
    ELSE s

Trim(s) == TrimRight(TrimLeft(s))

StartsWith(s, prefix) ==
    /\ Len(s) >= Len(prefix)
    /\ SubSeq(s, 1, Len(prefix)) = prefix

\* what the key file may hold: nothing, blanks, a login key (bare, or with
\* blanks around it), a refresh token of either prefix (bare, or behind a
\* blank), and keys that come close to the prefixes
KeyContents ==
    { <<>>, <<" ", "\n">>, <<"k", "1">>, <<" ", "k", "1", "\n">>,
      <<"e", "y", "J", "h">>, <<"e", "y", "A", "h">>, <<" ", "e", "y", "J">>,
      <<"e", "y">>, <<"e", "y", "B", "h">>, <<"k", "e", "y", "J">> }

\* the keys the presence service hands out: a login key, a refresh token
EmittedKeys == { <<"k", "1">>, <<"e", "y", "J", "h">> }

NoKeyFile == [exists |-> FALSE, content |-> <<>>]

KeyFiles == {NoKeyFile} \cup {[exists |-> TRUE, content |-> k] : k \in KeyContents}

\* the file holds a key: something other than blanks
HoldsKey(file) ==
    /\ file.exists
    /\ \E i \in DOMAIN file.content : file.content[i] \notin Whitespace

\* loadLoginKey(): the trimmed content; null (here the empty string, as falsy
\* as null) when the file is missing, unreadable or blank
LoadLoginKey(file, ioOk) ==
    IF ~file.exists \/ ~ioOk THEN <<>> ELSE Trim(file.content)

\* saveLoginKey(key): the trimmed key is written; nothing is written for an
\* empty key or when the directory or the file cannot be written
SaveLoginKey(file, key, ioOk) ==
    IF Trim(key) = <<>> \/ ~ioOk THEN file
    ELSE [exists |-> TRUE, content |-> Trim(key)]

\* handleInvalidLoginKey(): unlink, errors swallowed
DeleteLoginKey(file, ioOk) ==
    IF ioOk THEN NoKeyFile ELSE file

NoOptions ==
    [accountName |-> FALSE, password |-> FALSE, loginKey |-> FALSE,
     refreshToken |-> FALSE, twoFactorCode |-> FALSE,
     machineAuthToken |-> FALSE, shaSentryfile |-> FALSE, key |-> <<>>]

\* only 'eyJ' made a refresh token
IsRefreshToken_OnlyJ(key) == StartsWith(key, <<"e", "y", "J">>)

\* loginKey.startsWith('eyJ') || loginKey.startsWith('eyA')
IsRefreshToken(key) ==
    \/ StartsWith(key, <<"e", "y", "J">>)
    \/ StartsWith(key, <<"e", "y", "A">>)

\* the options loginWithKey hands to logOn; key is the value that goes as
\* refreshToken or as loginKey
KeyLoginOptions(key) ==
    IF IsRefreshToken(key)
    THEN [NoOptions EXCEPT !.refreshToken = TRUE, !.key = key]
    ELSE [NoOptions EXCEPT !.accountName = TRUE, !.loginKey = TRUE, !.key = key]

\* the options login() builds for loginWithPassword
PasswordLoginOptions(tokenFound, sentryFound, secretArg) ==
    [NoOptions EXCEPT !.accountName = TRUE, !.password = TRUE,
                      !.machineAuthToken = tokenFound,
                      !.shaSentryfile = sentryFound,
                      !.twoFactorCode = secretArg]

NoLogin ==
    [phase |-> "unused", path |-> "none", outcome |-> "none", secretArg |-> FALSE,
     heldKey |-> FALSE, options |-> NoOptions, codes |-> 0, logOns |-> 0,
     settles |-> 0, error |-> "none", heard |-> FALSE, loggedOn |-> FALSE,
     keyScans |-> 0, scans |-> 0, tokenSaved |-> FALSE]

\* client.logOn(options), called by login l with the per-login listeners as
\* they stand: heard tells whether both of its handlers were on the client
LogOn(rec, options, onLoggedOn, onError, l) ==
    [rec EXCEPT !.phase = "awaiting", !.options = options, !.logOns = @ + 1,
                !.heard = l \in Range(onLoggedOn) /\ l \in Range(onError)]

\* what the presence service may reject a logOn with
ServiceErrors == {"InvalidPassword", "AccessDenied"}

SettleLogin(rec, outcome) ==
    IF rec.outcome # "none"
    THEN [rec EXCEPT !.settles = @ + 1]
    ELSE [rec EXCEPT !.phase = "settled", !.outcome = outcome, !.settles = @ + 1]

\* login() ignored the key file
ChoosePath_AlwaysPassword(key) == "password"

\* login(): the key path when loadLoginKey() gave a key
ChoosePath(key) == IF key # <<>> THEN "key" ELSE "password"

\* the watchdog let one more disconnect pass
HandleDisconnect_OffByOne(count) ==
    [count |-> count + 1, exit |-> count + 1 > MAX_DISCONNECTS]

\* the watchdog counted and never ended the process
HandleDisconnect_NeverExits(count) ==
    [count |-> count + 1, exit |-> FALSE]

\* handleDisconnect(): count, and exit at MAX_DISCONNECTS
HandleDisconnect(count) ==
    [count |-> count + 1, exit |-> count + 1 >= MAX_DISCONNECTS]

\* the watchdog's 'loggedOn' handler
ResetOnLoggedOn(count) == 0

logOnCalled == \E l \in LoginIds : logins[l].logOns > 0

gcVars == <<enableFileCache, gcFlags, fetchVars, waitVars, last>>

\* the body of login(username, password, sharedSecret), to its await of
\* loadLoginKey()
LoginCall(secretArg) ==
    /\ ~exited
    /\ nextLogin <= MaxLogins
    /\ logins' = [logins EXCEPT ![nextLogin] =
                    [NoLogin EXCEPT !.phase = "loadingKey", !.secretArg = secretArg]]
    /\ nextLogin' = nextLogin + 1
    /\ UNCHANGED <<connectTry, parseVars, storeVars, gcVars, sharedSecret, loginKeyFile, disconnectCount, exited, streak,
                   wasReset, loggedOnListeners, errorListeners, guard>>

\* login(), called on its own
LoginStart(secretArg) ==
    /\ LoginCall(secretArg)
    /\ UNCHANGED main

\* login() after loadLoginKey(): with a key, loginWithKey registers its two
\* handlers and calls logOn; without, the token and sentry files are read
LoginKeyLoaded(l, ioOk) ==
    /\ ~exited
    /\ logins[l].phase = "loadingKey"
    /\ LET key == LoadLoginKey(loginKeyFile, ioOk)
           rec == [logins[l] EXCEPT !.heldKey = HoldsKey(loginKeyFile) /\ ioOk,
                                    !.path = ChoosePath(key)]
       IN IF rec.path = "key"
          THEN /\ loggedOnListeners' = AddListener(loggedOnListeners, l)
               /\ errorListeners' = AddListener(errorListeners, l)
               /\ logins' = [logins EXCEPT ![l] =
                     LogOn(rec, KeyLoginOptions(key), loggedOnListeners',
                           errorListeners', l)]
          ELSE /\ logins' = [logins EXCEPT ![l] = [rec EXCEPT !.phase = "loadingTokens"]]
               /\ UNCHANGED <<loggedOnListeners, errorListeners>>
    /\ UNCHANGED <<connectTry, parseVars, storeVars, main, gcVars, sharedSecret, loginKeyFile, disconnectCount, exited, streak,
                   wasReset, nextLogin, guard>>

\* login() after loadMachineAuthToken() and loadSentryFile(): the options, a
\* one-time code when a secret was passed, loginWithPassword's two handlers,
\* logOn
LoginTokensLoaded(l, tokenFound, sentryFound) ==
    /\ ~exited
    /\ logins[l].phase = "loadingTokens"
    /\ loggedOnListeners' = AddListener(loggedOnListeners, l)
    /\ errorListeners' = AddListener(errorListeners, l)
    /\ logins' = [logins EXCEPT ![l] =
            LogOn([@ EXCEPT !.codes = IF logins[l].secretArg THEN @ + 1 ELSE @],
                  PasswordLoginOptions(tokenFound, sentryFound, logins[l].secretArg),
                  loggedOnListeners', errorListeners', l)]
    /\ UNCHANGED <<connectTry, parseVars, storeVars, main, gcVars, sharedSecret, loginKeyFile, disconnectCount, exited, streak,
                   wasReset, nextLogin, guard>>

\* a per-login loggedOnHandler: the 'error' handler comes off; loginWithKey
\* resolves, loginWithPassword first looks for tokens to save
LoggedOnHandler(rec) ==
    IF rec.path = "key" THEN SettleLogin([rec EXCEPT !.loggedOn = TRUE], "resolved")
    ELSE [rec EXCEPT !.phase = "extracting", !.loggedOn = TRUE]

\* the per-login errorHandler called logOn again
ErrorHandler_Retries(rec, err) ==
    IF rec.path = "key"
    THEN [rec EXCEPT !.phase = "deletingKey", !.error = err, !.logOns = @ + 1]
    ELSE SettleLogin([rec EXCEPT !.error = err, !.logOns = @ + 1], "rejected")

\* a per-login errorHandler: the 'loggedOn' handler comes off; loginWithKey
\* deletes the key file before it rejects, loginWithPassword rejects
ErrorHandler(rec, err) ==
    IF rec.path = "key" THEN [rec EXCEPT !.phase = "deletingKey", !.error = err]
    ELSE SettleLogin([rec EXCEPT !.error = err], "rejected")

\* the handler that ran left the login's other handler on the client
RemoveAll_LeavesOther(list, hs) == list

RECURSIVE RemoveAll(_, _)
RemoveAll(list, hs) ==
    IF hs = <<>> THEN list ELSE RemoveAll(RemoveListener(list, Head(hs)), Tail(hs))

\* the presence client emits 'loggedOn': the watchdog resets the counter, then
\* the per-login once-handlers run, then main's listener
SteamLoggedOn ==
    /\ ~exited
    /\ logOnCalled
    /\ disconnectCount' = ResetOnLoggedOn(disconnectCount)
    /\ wasReset' = (wasReset \/ disconnectCount > 0)
    /\ streak' = 0
    /\ LET targets == EmitTargets(loggedOnListeners)
       IN /\ loggedOnListeners' = AfterOnce(loggedOnListeners, targets)
          /\ errorListeners' = RemoveAll(errorListeners, targets)
          /\ logins' = [l \in LoginIds |->
                          IF l \in Range(targets) THEN LoggedOnHandler(logins[l])
                          ELSE logins[l]]
    /\ main.monitoring /\ main.hasInitialLogin /\ ~main.isSteamLoggedIn
          => main.nextChain <= MaxChains
    /\ main' = [MainOnLoggedOn(main) EXCEPT !.downSince = FALSE]
    /\ UNCHANGED <<connectTry, parseVars, storeVars, gcVars, sharedSecret, loginKeyFile, exited, nextLogin, guard>>

\* the presence client emits 'error': the watchdog counts and may end the
\* process; if it does not, the per-login once-handlers run
SteamError(err) ==
    /\ ~exited
    /\ logOnCalled
    /\ LET r == HandleDisconnect(disconnectCount)
           targets == EmitTargets(errorListeners)
       IN /\ disconnectCount' = r.count
          /\ exited' = r.exit
          /\ IF r.exit
             THEN UNCHANGED <<logins, loggedOnListeners, errorListeners>>
             ELSE /\ errorListeners' = AfterOnce(errorListeners, targets)
                  /\ loggedOnListeners' = RemoveAll(loggedOnListeners, targets)
                  /\ logins' = [l \in LoginIds |->
                                  IF l \in Range(targets) THEN ErrorHandler(logins[l], err)
                                  ELSE logins[l]]
    /\ streak' = streak + 1
    /\ UNCHANGED <<connectTry, parseVars, storeVars, main, gcVars, sharedSecret, loginKeyFile, wasReset, nextLogin, guard>>

\* the presence client emits 'disconnected': the watchdog, then, unless it
\* ended the process, main's listener
SteamDisconnected ==
    /\ ~exited
    /\ logOnCalled
    /\ LET r == HandleDisconnect(disconnectCount)
       IN /\ disconnectCount' = r.count
          /\ exited' = r.exit
          /\ main' = IF r.exit THEN main
                     ELSE [MainOnDisconnected(main) EXCEPT
                              !.downSince = (main.trace # <<>>)]
    /\ streak' = streak + 1
    /\ UNCHANGED <<connectTry, parseVars, storeVars, gcVars, sharedSecret, loginKeyFile, wasReset, logins, nextLogin,
                   loggedOnListeners, errorListeners, guard>>

\* the 'steamGuardCode' listener answered every prompt
OnSteamGuardCode_AlwaysAnswers(secret, genOk) == "answered"

\* the 'steamGuardCode' listener: callback(code) only with this.sharedSecret
\* set and generateTwoFactorCode not throwing
OnSteamGuardCode(secret, genOk) ==
    IF secret /\ genOk THEN "answered" ELSE "prompted"

\* the presence client emits 'steamGuardCode': with a secret the handler
\* answers with a generated code (unless generating throws), without it the
\* callback is left alone
SteamGuardCode(genOk) ==
    /\ ~exited
    /\ \E l \in LoginIds : logins[l].phase = "awaiting"
    /\ guard' = OnSteamGuardCode(sharedSecret, genOk)
    /\ UNCHANGED <<connectTry, parseVars, storeVars, main, gcVars, sharedSecret, loginKeyFile, disconnectCount, exited, streak,
                   wasReset, logins, nextLogin, loggedOnListeners, errorListeners>>

\* loginWithKey's errorHandler after handleInvalidLoginKey(): reject
KeyDeleted(l, ioOk) ==
    /\ ~exited
    /\ logins[l].phase = "deletingKey"
    /\ loginKeyFile' = DeleteLoginKey(loginKeyFile, ioOk)
    /\ logins' = [logins EXCEPT ![l] = SettleLogin(@, "rejected")]
    /\ UNCHANGED <<connectTry, parseVars, storeVars, main, gcVars, sharedSecret, disconnectCount, exited, streak, wasReset,
                   nextLogin, loggedOnListeners, errorListeners, guard>>

\* what a look into the client's internals may come to: nothing there,
\* something there, or an exception on the way
Extractions == {"none", "found", "threw"}

\* loginWithPassword's loggedOnHandler after await
\* this.tryExtractLoginKeyFromClient(): its result is not looked at, and what
\* it throws it catches itself; the first token check follows a delay
KeyScanned(rec, outcome) ==
    [rec EXCEPT !.phase = "scanning", !.keyScans = @ + 1]

\* an exception in tryExtractTokenFromClient rejected the login
TokenScanned_ThrowRejects(rec, outcome) ==
    IF outcome = "threw" THEN SettleLogin(rec, "rejected")
    ELSE LET saved == outcome = "found"
         IN [rec EXCEPT !.scans = @ + 1, !.tokenSaved = saved,
                        !.phase = IF saved \/ rec.scans + 1 > TokenRetries
                                  THEN "verifying" ELSE "scanning"]

\* tokenSaved = await tryExtractTokenFromClient(): true when a token was
\* there, whatever saveSessionData made of it, false when none was there or
\* the look threw; the loop goes on while !tokenSaved and delays are left
TokenScanned(rec, outcome) ==
    LET saved == outcome = "found"
    IN [rec EXCEPT !.scans = @ + 1, !.tokenSaved = saved,
                   !.phase = IF saved \/ rec.scans + 1 > TokenRetries
                             THEN "verifying" ELSE "scanning"]

\* loginWithPassword's loggedOnHandler at tryExtractLoginKeyFromClient: a
\* key that is found goes to saveLoginKey
ExtractLoginKey(l, outcome, ioOk) ==
    /\ ~exited
    /\ logins[l].phase = "extracting"
    /\ loginKeyFile' = IF outcome = "found"
                       THEN SaveLoginKey(loginKeyFile, <<"k", "1">>, ioOk)
                       ELSE loginKeyFile
    /\ logins' = [logins EXCEPT ![l] = KeyScanned(@, outcome)]
    /\ UNCHANGED <<connectTry, parseVars, storeVars, main, gcVars, sharedSecret, disconnectCount, exited, streak,
                   wasReset, nextLogin, loggedOnListeners, errorListeners, guard>>

\* loginWithPassword's loggedOnHandler after its token checks and its looks
\* at the two files: resolve
LoginExtracted(l) ==
    /\ ~exited
    /\ logins[l].phase = "verifying"
    /\ logins' = [logins EXCEPT ![l] = SettleLogin(@, "resolved")]
    /\ UNCHANGED <<connectTry, parseVars, storeVars, main, gcVars, sharedSecret, loginKeyFile, disconnectCount, exited, streak,
                   wasReset, nextLogin, loggedOnListeners, errorListeners, guard>>

\* a key reaches saveLoginKey(): from a 'loginKey' event or from the client's
\* internals after 'loggedOn'
LoginKeySaved(key, ioOk) ==
    /\ ~exited
    /\ logOnCalled
    /\ loginKeyFile' = SaveLoginKey(loginKeyFile, key, ioOk)
    /\ UNCHANGED <<connectTry, parseVars, storeVars, main, gcVars, sharedSecret, disconnectCount, exited, streak, wasReset,
                   logins, nextLogin, loggedOnListeners, errorListeners, guard>>

----------------------------------------------------------------------------
(* main() of index.ts: startup, the retry loop, recovery, shutdown *)

\* the process runs
Alive == main.exitCode = -1 /\ ~exited

authFiles == <<sharedSecret, loginKeyFile>>
watchdogVars == <<disconnectCount, exited, streak, wasReset>>
loginVars == <<logins, nextLogin, loggedOnListeners, errorListeners, guard>>

\* main() calls steamAuth.login(username, password, sharedSecret) with the
\* secret the constructor got
MainLogin ==
    /\ Alive
    /\ main.pc = "login"
    /\ nextLogin = 1
    /\ LoginCall(sharedSecret)
    /\ main' = [main EXCEPT !.trace = Append(@, "login")]

\* main's catch ended the process with exit code 0
MainLoginFailed_ExitsZero ==
    /\ Alive
    /\ main.pc = "login"
    /\ logins[1].outcome = "rejected"
    /\ main' = [main EXCEPT !.pc = "exited", !.exitCode = 0]
    /\ UNCHANGED <<connectTry, parseVars, storeVars, gcVars, authFiles, watchdogVars, loginVars>>

\* login() rejected: main's catch ends the process
MainLoginFailed ==
    /\ Alive
    /\ main.pc = "login"
    /\ logins[1].outcome = "rejected"
    /\ main' = [main EXCEPT !.pc = "exited", !.exitCode = 1]
    /\ UNCHANGED <<connectTry, parseVars, storeVars, gcVars, authFiles, watchdogVars, loginVars>>

\* main() did not await login()
MainSetPersona_NoAwait ==
    /\ Alive
    /\ main.pc = "login"
    /\ main.trace = <<"login">>
    /\ main' = [main EXCEPT !.pc = "personaDelay", !.trace = Append(@, "setPersona")]
    /\ UNCHANGED <<connectTry, parseVars, storeVars, gcVars, authFiles, watchdogVars, loginVars>>

\* login() resolved and STEAM_INIT_DELAY_MS passed: setPersona(1)
MainSetPersona ==
    /\ Alive
    /\ main.pc = "login"
    /\ logins[1].outcome = "resolved"
    /\ main' = [main EXCEPT !.pc = "personaDelay", !.trace = Append(@, "setPersona")]
    /\ UNCHANGED <<connectTry, parseVars, storeVars, gcVars, authFiles, watchdogVars, loginVars>>

\* PERSONA_SET_DELAY_MS passed: new GCConnection(steamClient), whose
\* constructor registers the state listeners
MainCreateGc ==
    /\ Alive
    /\ main.pc = "personaDelay"
    /\ main' = [main EXCEPT !.pc = "gcInitDelay", !.gcCreated = TRUE,
                            !.trace = Append(@, "newGCConnection")]
    /\ UNCHANGED <<connectTry, parseVars, storeVars, gcVars, authFiles, watchdogVars, loginVars>>

\* GC_INIT_DELAY_MS passed: gamesPlayed([730])
MainGamesPlayed ==
    /\ Alive
    /\ main.pc = "gcInitDelay"
    /\ main' = [main EXCEPT !.pc = "launchDelay", !.trace = Append(@, "gamesPlayed")]
    /\ UNCHANGED <<connectTry, parseVars, storeVars, gcVars, authFiles, watchdogVars, loginVars>>

\* main() at a call of waitForReady(): on at once when the manager is ready
MainAtWait(m, ready, w) ==
    LET m1 == [m EXCEPT !.attempt = @ + 1, !.trace = Append(@, "waitForReady")]
    IN IF ready THEN MainWaitResolved(m1)
       ELSE [m1 EXCEPT !.pc = "waiting", !.waiter = w]

\* GC_LAUNCH_DELAY_MS passed: attemptConnection(), the fetcher, the server,
\* the two recovery listeners and the grace timer, then the first
\* waitForReady() of the loop
MainConnect ==
    /\ Alive
    /\ main.pc = "launchDelay"
    /\ ConnectThenWait
    /\ main' = MainAtWait([main EXCEPT !.serverStarted = TRUE, !.monitoring = TRUE,
                                       !.trace = @ \o <<"attemptConnection",
                                                        "newProfileFetcher",
                                                        "serverStart">>],
                          isReady, nextWaiter)
    /\ UNCHANGED <<connectTry, parseVars, storeVars, authVars, enableFileCache, gcFlags, fetchVars>>

\* GC_RETRY_DELAY_MS passed: attemptConnection(), then the next waitForReady()
MainRetry ==
    /\ Alive
    /\ main.pc = "retryDelay"
    /\ ConnectThenWait
    /\ main' = MainAtWait([main EXCEPT !.trace = Append(@, "attemptConnection")],
                          isReady, nextWaiter)
    /\ UNCHANGED <<connectTry, parseVars, storeVars, authVars, enableFileCache, gcFlags, fetchVars>>

\* the grace timer: hasInitialLogin = true
GraceElapsed ==
    /\ Alive
    /\ main.monitoring
    /\ ~main.hasInitialLogin
    /\ main' = [main EXCEPT !.hasInitialLogin = TRUE]
    /\ UNCHANGED <<connectTry, parseVars, storeVars, gcVars, authFiles, watchdogVars, loginVars>>

\* a tick of the startup background timer: with the manager ready it clears
\* the timer, else it calls attemptConnection() and waits
BackgroundTick(m, ready) ==
    IF ready THEN ClearBackgroundRetry(m) ELSE [m EXCEPT !.bgBusy = TRUE]

BgTick ==
    /\ Alive
    /\ main.liveBg
    /\ ~main.bgBusy
    /\ main' = BackgroundTick(main, IsGcReady)
    /\ IF IsGcReady THEN UNCHANGED last ELSE Mark("attemptConnection")
    /\ UNCHANGED <<connectTry, parseVars, storeVars, authVars, enableFileCache, gcFlags, fetchVars, waitVars>>

\* the tick after GC_BACKGROUND_RETRY_DELAY_MS: it clears the timer when the
\* manager has become ready
BgTickDone ==
    /\ Alive
    /\ main.bgBusy
    /\ main' = IF IsGcReady THEN ClearBackgroundRetry([main EXCEPT !.bgBusy = FALSE])
               ELSE [main EXCEPT !.bgBusy = FALSE]
    /\ UNCHANGED <<connectTry, parseVars, storeVars, gcVars, authFiles, watchdogVars, loginVars>>

\* the recovery callback, STEAM_INIT_DELAY_MS after the reconnect: setPersona(1)
ChainPersona(c) ==
    /\ Alive
    /\ main.chains[c].pc = "steamInitDelay"
    /\ main' = [main EXCEPT !.chains[c] =
                    [pc |-> "personaDelay", steps |-> Append(@.steps, "setPersona")]]
    /\ UNCHANGED <<connectTry, parseVars, storeVars, gcVars, authFiles, watchdogVars, loginVars>>

\* the recovery callback after PERSONA_SET_DELAY_MS: gamesPlayed([730])
ChainGamesPlayed(c) ==
    /\ Alive
    /\ main.chains[c].pc = "personaDelay"
    /\ main' = [main EXCEPT !.chains[c] =
                    [pc |-> "launchDelay", steps |-> Append(@.steps, "gamesPlayed")]]
    /\ UNCHANGED <<connectTry, parseVars, storeVars, gcVars, authFiles, watchdogVars, loginVars>>

\* the recovery callback set the handle to a new timer without clearing the
\* timer the handle named
InstallReconnectInterval_NoClear(m, c) ==
    [m EXCEPT !.liveRc = @ \cup {c},
              !.gcReconnectInterval = c,
              !.replaced = @ \/ (m.gcReconnectInterval # 0),
              !.chains[c] = [pc |-> "done",
                             steps |-> @.steps \o <<"attemptConnection", "setInterval">>]]

\* the recovery callback's last turn: the handle's timer is cleared, then the
\* handle gets a new interval timer
InstallReconnectInterval(m, c) ==
    [m EXCEPT !.liveRc = (@ \ {m.gcReconnectInterval}) \cup {c},
              !.gcReconnectInterval = c,
              !.replaced = @ \/ (m.gcReconnectInterval # 0),
              !.chains[c] = [pc |-> "done",
                             steps |-> @.steps \o <<"attemptConnection", "setInterval">>]]

\* the recovery callback after GC_LAUNCH_DELAY_MS: attemptConnection(), then
\* the recovery timer
ChainConnect(c) ==
    /\ Alive
    /\ main.chains[c].pc = "launchDelay"
    /\ main' = InstallReconnectInterval(main, c)
    /\ Mark("attemptConnection")
    /\ UNCHANGED <<connectTry, parseVars, storeVars, authVars, enableFileCache, gcFlags, fetchVars, waitVars>>

\* a tick of recovery timer t
ReconnectTick(m, ready, t) ==
    IF ready THEN ClearReconnectInterval(m) ELSE [m EXCEPT !.rcBusy = @ \cup {t}]

RcTick(t) ==
    /\ Alive
    /\ t \in main.liveRc
    /\ t \notin main.rcBusy
    /\ main' = ReconnectTick(main, IsGcReady, t)
    /\ IF IsGcReady THEN UNCHANGED last ELSE Mark("attemptConnection")
    /\ UNCHANGED <<connectTry, parseVars, storeVars, authVars, enableFileCache, gcFlags, fetchVars, waitVars>>

\* the tick of recovery timer t after GC_BACKGROUND_RETRY_DELAY_MS
RcTickDone(t) ==
    /\ Alive
    /\ t \in main.rcBusy
    /\ main' = IF IsGcReady
               THEN ClearReconnectInterval([main EXCEPT !.rcBusy = @ \ {t}])
               ELSE [main EXCEPT !.rcBusy = @ \ {t}]
    /\ UNCHANGED <<connectTry, parseVars, storeVars, gcVars, authFiles, watchdogVars, loginVars>>

\* shutdown(signal), to its await of apiServer.close(): both timers cleared
ShutdownClear(m) ==
    ClearReconnectInterval(ClearBackgroundRetry(m))

Shutdown ==
    /\ Alive
    /\ main.signals
    /\ main.shutdown = "none"
    /\ main' = [ShutdownClear(main) EXCEPT !.shutdown = "closing",
                                           !.downSteps = Append(@, "close")]
    /\ UNCHANGED <<connectTry, parseVars, storeVars, gcVars, authFiles, watchdogVars, loginVars>>

\* shutdown after await apiServer.close(): steamAuth.disconnect() and the
\* last delay, or from its catch exit(1) when close() rejected
AfterClose(m, closeOk) ==
    IF closeOk
    THEN [m EXCEPT !.logOffs = @ + 1, !.downSteps = @ \o <<"logOff", "delay">>]
    ELSE [m EXCEPT !.exitCode = 1, !.downSteps = Append(@, "exit")]

\* apiServer.close() settled: steamAuth.disconnect() and the last delay, or
\* exit(1) when it rejected
ShutdownClosed(closeOk) ==
    /\ Alive
    /\ main.shutdown = "closing"
    /\ main' = [AfterClose(main, closeOk) EXCEPT
                   !.shutdown = IF closeOk THEN "delay" ELSE "exited"]
    /\ UNCHANGED <<connectTry, parseVars, storeVars, gcVars, authFiles, watchdogVars, loginVars>>

\* SHUTDOWN_DELAY_MS passed: exit(0)
ShutdownExit ==
    /\ Alive
    /\ main.shutdown = "delay"
    /\ main' = [main EXCEPT !.shutdown = "exited", !.exitCode = 0,
                            !.downSteps = Append(@, "exit")]
    /\ UNCHANGED <<connectTry, parseVars, storeVars, gcVars, authFiles, watchdogVars, loginVars>>

\* a second signal while the first shutdown has not exited: the handler calls
\* shutdown(signal) again, which clears the timers and calls
\* apiServer.close() once more
ShutdownAgain ==
    /\ Alive
    /\ main.shutdown \in {"closing", "delay"}
    /\ main.again = "none"
    /\ main' = [ShutdownClear(main) EXCEPT !.again = "closing",
                                           !.downSteps = Append(@, "close")]
    /\ UNCHANGED <<connectTry, parseVars, storeVars, gcVars, authFiles, watchdogVars, loginVars>>

\* the second apiServer.close() settled, behind the first one, whose callback
\* was registered before
ShutdownAgainClosed(closeOk) ==
    /\ Alive
    /\ main.again = "closing"
    /\ main.shutdown # "closing"
    /\ main' = [AfterClose(main, closeOk) EXCEPT
                   !.again = IF closeOk THEN "delay" ELSE "exited"]
    /\ UNCHANGED <<connectTry, parseVars, storeVars, gcVars, authFiles, watchdogVars, loginVars>>

\* SHUTDOWN_DELAY_MS of the second shutdown passed: exit(0)
ShutdownAgainExit ==
    /\ Alive
    /\ main.again = "delay"
    /\ main' = [main EXCEPT !.again = "exited", !.exitCode = 0,
                            !.downSteps = Append(@, "exit")]
    /\ UNCHANGED <<connectTry, parseVars, storeVars, gcVars, authFiles, watchdogVars, loginVars>>

----------------------------------------------------------------------------
(* SteamAuth: the machine auth token file, text as sequences of characters *)

Quote == "\""
Backslash == "\\"
Newline == "\n"

KeyToken == <<"t","o","k","e","n">>
KeyMachineAuthToken ==
    <<"m","a","c","h","i","n","e","A","u","t","h","T","o","k","e","n">>
KeyValue == <<"v","a","l","u","e">>
KeyAccountName == <<"a","c","c","o","u","n","t","N","a","m","e">>
KeySavedAt == <<"s","a","v","e","d","A","t">>

\* JavaScript values: strings, objects (their own keys in insertion order),
\* undefined and null
JString(s) == [kind |-> "string", chars |-> s, fields |-> <<>>]
JObject(f) == [kind |-> "object", chars |-> <<>>, fields |-> f]
Undefined == [kind |-> "undefined", chars |-> <<>>, fields |-> <<>>]
Null == [kind |-> "null", chars |-> <<>>, fields |-> <<>>]

\* key in obj
HasField(v, key) == \E i \in DOMAIN v.fields : v.fields[i].key = key

\* obj.key
Field(v, key) ==
    IF HasField(v, key)
    THEN v.fields[CHOOSE i \in DOMAIN v.fields : v.fields[i].key = key].value
    ELSE Undefined

\* obj[key] = value
SetField(fields, key, value) ==
    IF \E i \in DOMAIN fields : fields[i].key = key
    THEN [i \in DOMAIN fields |->
            IF fields[i].key = key THEN [key |-> key, value |-> value] ELSE fields[i]]
    ELSE Append(fields, [key |-> key, value |-> value])

\* the value in a condition
Truthy(v) == v.kind = "object" \/ (v.kind = "string" /\ v.chars # <<>>)

\* JSON.stringify of a string's characters
RECURSIVE Escape(_)
Escape(s) ==
    IF s = <<>> THEN <<>>
    ELSE (IF Head(s) = Quote THEN <<Backslash, Quote>>
          ELSE IF Head(s) = Backslash THEN <<Backslash, Backslash>>
          ELSE IF Head(s) = Newline THEN <<Backslash, "n">>
          ELSE <<Head(s)>>) \o Escape(Tail(s))

QuoteJson(s) == <<Quote>> \o Escape(s) \o <<Quote>>

\* the line break and the indentation JSON.stringify(v, null, indent) puts
\* before a member at this depth
Pad(indent, depth) ==
    IF indent > 0 THEN <<Newline>> \o Rep(" ", indent * depth) ELSE <<>>

\* JSON.stringify(v, null, indent)
RECURSIVE JsonStringify(_, _, _)
RECURSIVE JsonMembers(_, _, _)
JsonMembers(fields, indent, depth) ==
    IF fields = <<>> THEN <<>>
    ELSE Pad(indent, depth)
            \o QuoteJson(Head(fields).key)
            \o <<":">>
            \o (IF indent > 0 THEN <<" ">> ELSE <<>>)
            \o JsonStringify(Head(fields).value, indent, depth)
            \o (IF Tail(fields) = <<>> THEN <<>> ELSE <<",">>)
            \o JsonMembers(Tail(fields), indent, depth)

JsonStringify(v, indent, depth) ==
    IF v.kind = "string" THEN QuoteJson(v.chars)
    ELSE IF v.fields = <<>> THEN <<"{", "}">>
    ELSE <<"{">> \o JsonMembers(v.fields, indent, depth + 1)
                 \o Pad(indent, depth) \o <<"}">>

IsWhitespace(ch) == ch \in Whitespace

RECURSIVE SkipWhitespace(_, _)
SkipWhitespace(t, i) ==
    IF i <= Len(t) /\ IsWhitespace(t[i]) THEN SkipWhitespace(t, i + 1) ELSE i

\* JSON.parse threw a SyntaxError
ParseFailed == [ok |-> FALSE, value |-> Undefined, next |-> 0]

\* a JSON string from behind its opening quote: a raw line break is not
\* allowed in it, a backslash stands before a quote, a backslash or n
RECURSIVE ParseString(_, _, _)
ParseString(t, i, acc) ==
    IF i > Len(t) THEN ParseFailed
    ELSE IF t[i] = Quote THEN [ok |-> TRUE, value |-> JString(acc), next |-> i + 1]
    ELSE IF t[i] = Newline THEN ParseFailed
    ELSE IF t[i] = Backslash
         THEN IF i + 1 > Len(t) THEN ParseFailed
              ELSE IF t[i + 1] \in {Quote, Backslash}
                   THEN ParseString(t, i + 2, Append(acc, t[i + 1]))
              ELSE IF t[i + 1] = "n"
                   THEN ParseString(t, i + 2, Append(acc, Newline))
              ELSE ParseFailed
    ELSE ParseString(t, i + 1, Append(acc, t[i]))

\* a JSON value at i, and the members of an object from a key on
RECURSIVE ParseValue(_, _)
RECURSIVE ParseMembers(_, _, _)
ParseMembers(t, i0, acc) ==
    LET i == SkipWhitespace(t, i0)
    IN IF i > Len(t) \/ t[i] # Quote THEN ParseFailed
       ELSE LET k == ParseString(t, i + 1, <<>>)
            IN IF ~k.ok THEN ParseFailed
               ELSE LET c == SkipWhitespace(t, k.next)
                    IN IF c > Len(t) \/ t[c] # ":" THEN ParseFailed
                       ELSE LET v == ParseValue(t, c + 1)
                            IN IF ~v.ok THEN ParseFailed
                               ELSE LET e == SkipWhitespace(t, v.next)
                                        fields == SetField(acc, k.value.chars, v.value)
                                    IN IF e > Len(t) THEN ParseFailed
                                       ELSE IF t[e] = "," THEN ParseMembers(t, e + 1, fields)
                                       ELSE IF t[e] = "}"
                                            THEN [ok |-> TRUE, value |-> JObject(fields),
                                                  next |-> e + 1]
                                       ELSE ParseFailed

ParseValue(t, i0) ==
    LET i == SkipWhitespace(t, i0)
    IN IF i > Len(t) THEN ParseFailed
       ELSE IF t[i] = Quote THEN ParseString(t, i + 1, <<>>)
       ELSE IF t[i] = "{"
            THEN LET j == SkipWhitespace(t, i + 1)
                 IN IF j <= Len(t) /\ t[j] = "}"
                    THEN [ok |-> TRUE, value |-> JObject(<<>>), next |-> j + 1]
                    ELSE ParseMembers(t, j, <<>>)
       ELSE ParseFailed

\* JSON.parse(t): one value with nothing but whitespace around it
JsonParse(t) ==
    LET r == ParseValue(t, 1)
    IN IF r.ok /\ SkipWhitespace(t, r.next) > Len(t) THEN r ELSE ParseFailed

\* the structured form of a token: { token, accountName, savedAt }
StructuredData(tokenValue, name, now) ==
    JObject(<<[key |-> KeyToken, value |-> tokenValue],
              [key |-> KeyAccountName, value |-> JString(name)],
              [key |-> KeySavedAt, value |-> JString(now)]>>)

\* saveSessionData(this.tokenPath, data, ...): the text it writes for a string
\* or an object (a Buffer is not among the data modelled)
TokenDataToSave(data, name, now) ==
    LET named == IF Truthy(Field(data, KeyToken)) THEN Field(data, KeyToken)
                 ELSE IF Truthy(Field(data, KeyMachineAuthToken))
                      THEN Field(data, KeyMachineAuthToken)
                 ELSE IF Truthy(Field(data, KeyValue)) THEN Field(data, KeyValue)
                 ELSE Undefined
        tokenValue ==
            IF data.kind = "string" THEN data
            ELSE IF ~Truthy(named) /\ data.fields # <<>> /\ ~HasField(data, KeyToken)
                 THEN JString(JsonStringify(data, 0, 0))
            ELSE named
    IN IF Truthy(tokenValue)
       THEN JsonStringify(StructuredData(tokenValue, name, now), 2, 0)
       ELSE JsonStringify(data, 2, 0)

NoTokenFile == [exists |-> FALSE, content |-> <<>>]

\* loadMachineAuthToken returned the whole of what it parsed
LoadedToken_WholeObject(file, readOk) ==
    IF ~file.exists \/ ~readOk THEN Null
    ELSE LET parsed == JsonParse(file.content)
         IN IF parsed.ok THEN parsed.value ELSE JString(Trim(file.content))

\* what loadMachineAuthToken returns: null without a file or when the read
\* fails, the token field of a parsed object that has one, else what was
\* parsed, else the trimmed text
LoadedToken(file, readOk) ==
    IF ~file.exists \/ ~readOk THEN Null
    ELSE LET parsed == JsonParse(file.content)
         IN IF parsed.ok
            THEN IF parsed.value.kind = "object" /\ HasField(parsed.value, KeyToken)
                 THEN Field(parsed.value, KeyToken)
                 ELSE parsed.value
            ELSE JString(Trim(file.content))

\* no token was saved, none was loaded
NoSave == [done |-> FALSE, data |-> Undefined]
NoLoad == [done |-> FALSE, readOk |-> FALSE, saved |-> NoSave, value |-> Undefined]

\* a token the presence client hands over: a string of up to MaxTokenLen
\* characters, or an object with one or two string members
TokenChars == {"a", " ", Quote, Backslash, Newline}
TokenStrings == UNION {[1..n -> TokenChars] : n \in 0..MaxTokenLen}
TokenObjects ==
    {JObject(<<>>)}
    \cup {JObject(<<[key |-> k, value |-> JString(s)]>>) :
            k \in {KeyToken, KeyMachineAuthToken, KeyValue, KeySavedAt},
            s \in {<<>>, <<"a">>}}
TokenInputs == {JString(s) : s \in TokenStrings} \cup TokenObjects

AccountNames == {<<"u">>, <<"u", Quote>>}
Timestamps == {<<"1">>, <<"2">>}

\* token files of an earlier run: none, or the token as plain text
TokenFiles == {NoTokenFile, [exists |-> TRUE, content |-> <<" ", "a", Newline>>]}

\* the 'machineAuthToken' listener: saveSessionData(this.tokenPath, token);
\* when the directory or the write fails the file stays as it was
SaveSessionData(data, now, ioOk) ==
    /\ IF ioOk
       THEN /\ tokenFile' = [exists |-> TRUE,
                             content |-> TokenDataToSave(data, accountName, now)]
            /\ tokenSaved' = [done |-> TRUE, data |-> data]
       ELSE UNCHANGED <<tokenFile, tokenSaved>>
    /\ UNCHANGED <<connectTry, parseVars, accountName, tokenLoaded, main, gcVars, authVars>>

\* login()'s await this.loadMachineAuthToken()
LoadMachineAuthToken(readOk) ==
    /\ tokenLoaded' = [done |-> TRUE, readOk |-> readOk, saved |-> tokenSaved,
                       value |-> LoadedToken(tokenFile, readOk)]
    /\ UNCHANGED <<connectTry, parseVars, accountName, tokenFile, tokenSaved, main, gcVars, authVars>>

\* the handler at a tryExtractTokenFromClient, after its delay: a token that
\* is found goes to saveSessionData
ExtractToken(l, outcome, ioOk) ==
    /\ ~exited
    /\ logins[l].phase = "scanning"
    /\ IF outcome = "found" /\ ioOk
       THEN /\ tokenFile' = [exists |-> TRUE,
                             content |-> TokenDataToSave(JString(<<"a">>), accountName, <<"1">>)]
            /\ tokenSaved' = [done |-> TRUE, data |-> JString(<<"a">>)]
       ELSE UNCHANGED <<tokenFile, tokenSaved>>
    /\ logins' = [logins EXCEPT ![l] = TokenScanned(@, outcome)]
    /\ UNCHANGED <<connectTry, parseVars, accountName, tokenLoaded, main, gcVars, sharedSecret, loginKeyFile,
                   disconnectCount, exited, streak, wasReset, nextLogin,
                   loggedOnListeners, errorListeners, guard>>

----------------------------------------------------------------------------
(* ProfileFetcher.parseProfileResponse *)

\* an element of display_items_defidx as the protobuf decoder hands it over
NumberEntry(n) == [type |-> "number", value |-> n]
StringEntry == [type |-> "string", value |-> 0]
NullEntry == [type |-> "null", value |-> 0]

MedalEntries == {NumberEntry(n) : n \in 1..MaxMedalId} \cup {StringEntry, NullEntry}

\* profile.medals?.display_items_defidx: not there, there but not an array,
\* or an array of up to MaxMedals elements
NoItems == [shape |-> "missing", items |-> <<>>]
NotAnArray == [shape |-> "other", items |-> <<>>]
ItemLists ==
    {[shape |-> "array", items |-> l] :
        l \in UNION {[1..n -> MedalEntries] : n \in 0..MaxMedals}}
DisplayItems == {NoItems, NotAnArray} \cup ItemLists

\* profile.commendation: not there, or with some of its counters
NoCommendation == [present |-> FALSE, cmd_friendly |-> 0, cmd_leader |-> 0, cmd_teaching |-> 0]
Commendations ==
    {NoCommendation,
     [present |-> TRUE, cmd_friendly |-> 2, cmd_leader |-> 0, cmd_teaching |-> 1]}

Profiles ==
    [commendation : Commendations, display_items_defidx : DisplayItems]

\* Array.from(new Set(list)): the first occurrences, in their order
RECURSIVE Unique(_)
Unique(list) ==
    IF list = <<>> THEN <<>>
    ELSE LET front == Unique(SubSeq(list, 1, Len(list) - 1))
             x == list[Len(list)]
         IN IF \E i \in DOMAIN front : front[i] = x THEN front ELSE Append(front, x)

IsNumber(e) == e.type = "number"

\* medals were the numeric entries, repeated as reported
Medals_NoSet(items) ==
    IF items.shape = "array"
    THEN [i \in DOMAIN SelectSeq(items.items, IsNumber) |->
            [medalId |-> SelectSeq(items.items, IsNumber)[i].value]]
    ELSE <<>>

\* medals: the distinct numeric entries of display_items_defidx as
\* { medalId } objects
Medals(items) ==
    IF items.shape = "array"
    THEN LET uniqueMedalIds == Unique(SelectSeq(items.items, IsNumber))
         IN [i \in DOMAIN uniqueMedalIds |-> [medalId |-> uniqueMedalIds[i].value]]
    ELSE <<>>

\* the equipped medal was the first of the medals kept
EquippedMedal_FirstKept(items) ==
    IF Medals(items) # <<>>
    THEN NumberEntry(Medals(items)[1].medalId)
    ELSE NullEntry

\* equippedMedal: display_items_defidx[0] ?? null for an array, else null
EquippedMedal(items) ==
    IF items.shape = "array" /\ items.items # <<>>
    THEN items.items[1]
    ELSE NullEntry

\* the record parseProfileResponse returns (steamId64, xpLevel and fetchedAt
\* are copied or read from the clock)
ParseProfileResponse(p) ==
    [parsed |-> TRUE,
     commendations |-> [friendly |-> p.commendation.cmd_friendly,
                        leader |-> p.commendation.cmd_leader,
                        teacher |-> p.commendation.cmd_teaching],
     medals |-> Medals(p.display_items_defidx),
     equippedMedal |-> EquippedMedal(p.display_items_defidx)]

NoProfile ==
    [parsed |-> FALSE,
     commendations |-> [friendly |-> 0, leader |-> 0, teacher |-> 0],
     medals |-> <<>>,
     equippedMedal |-> NullEntry]

\* the response handler's await this.parseProfileResponse(typedProfile, ...)
ParseResponse ==
    /\ ~parsedProfile.parsed
    /\ parsedProfile' = ParseProfileResponse(response)
    /\ UNCHANGED <<connectTry, response, storeVars, main, gcVars, authVars>>

----------------------------------------------------------------------------
(* Specifications *)

GcInit ==
    /\ isConnected = FALSE
    /\ isReady = FALSE
    /\ calls = [c \in CallIds |-> NoCall]
    /\ nextCall = 1
    /\ respListeners = [id \in Identifiers |-> <<>>]
    /\ waiters = [w \in WaiterIds |-> NoWaiter]
    /\ nextWaiter = 1
    /\ readyListeners = <<>>
    /\ statusListeners = <<>>
    /\ connectTry = NoTry
    /\ last = [kind |-> "init", call |-> 0, id |-> EmptyId, ready |-> FALSE]

StoreInit ==
    /\ accountName = <<"u">>
    /\ tokenFile = NoTokenFile
    /\ tokenSaved = NoSave
    /\ tokenLoaded = NoLoad

\* no response has been parsed
ParseInit ==
    /\ response = [commendation |-> NoCommendation, display_items_defidx |-> NoItems]
    /\ parsedProfile = NoProfile

\* the presence side but for its files
SessionInit ==
    /\ main = NoMain
    /\ disconnectCount = 0
    /\ exited = FALSE
    /\ streak = 0
    /\ wasReset = FALSE
    /\ logins = [l \in LoginIds |-> NoLogin]
    /\ nextLogin = 1
    /\ loggedOnListeners = <<>>
    /\ errorListeners = <<>>
    /\ guard = "none"

AuthInit ==
    /\ SessionInit
    /\ StoreInit
    /\ ParseInit

\* the coordinator side, whatever ENABLE_FILE_CACHE is
Init ==
    /\ enableFileCache \in BOOLEAN
    /\ GcInit
    /\ sharedSecret = FALSE
    /\ loginKeyFile = NoKeyFile
    /\ AuthInit

\* the presence side, whatever the key file holds and whether a secret is set
InitAuth ==
    /\ enableFileCache = FALSE
    /\ GcInit
    /\ sharedSecret \in BOOLEAN
    /\ loginKeyFile \in KeyFiles
    /\ AuthInit

GcEvents ==
    \/ GcConnected
    \/ \E reason \in Reasons : GcDisconnected(reason)
    \/ \E status \in StatusCodes : GcConnectionStatus(status)
    \/ GcError

Responses ==
    \/ \E id \in Identifiers, isObject \in BOOLEAN : ProfileResponse(id, isObject)
    \/ \E c \in CallIds, saveOk \in BOOLEAN : ResponseSaved(c, saveOk)
    \/ \E c \in CallIds : Timeout(c)

\* the correlator and its callers
Next ==
    \/ \E id \in Identifiers, send \in SendResults : FetchProfile(id, send)
    \/ Responses

Spec == Init /\ [][Next]_vars

\* the correlator where a request timer that is set fires and a file write
\* that was started ends
SpecFair ==
    /\ Spec
    /\ \A c \in CallIds :
          /\ WF_vars(Timeout(c))
          /\ WF_vars(\E saveOk \in BOOLEAN : ResponseSaved(c, saveOk))

\* the request route in front of the correlator, with the coordinator's events
NextApi ==
    \/ \E id \in Identifiers, send \in SendResults : ApiRequest(id, send)
    \/ \E c \in CallIds, hit \in BOOLEAN, send \in SendResults : ApiCacheDone(c, hit, send)
    \/ Responses
    \/ GcEvents

SpecApi == Init /\ [][NextApi]_vars

\* the route where what the event loop owes it comes about: a request timer
\* that is set fires, a file write or a file read that was started ends
SpecApiFair ==
    /\ SpecApi
    /\ \A c \in CallIds :
          /\ WF_vars(Timeout(c))
          /\ WF_vars(\E saveOk \in BOOLEAN : ResponseSaved(c, saveOk))
          /\ WF_vars(\E hit \in BOOLEAN, send \in SendResults : ApiCacheDone(c, hit, send))

\* the connection manager alone
NextGC ==
    \/ GcEvents
    \/ WaitForReady
    \/ \E w \in WaiterIds : WaitTimeout(w)
    \/ \E offered \in SUBSET Capabilities, throws \in BOOLEAN :
          AttemptConnection(offered, throws)
    \/ Health

SpecGC == Init /\ [][NextGC]_vars

\* the presence session manager
NextAuth ==
    \/ \E secretArg \in BOOLEAN : LoginStart(secretArg)
    \/ \E l \in LoginIds, ioOk \in BOOLEAN : LoginKeyLoaded(l, ioOk)
    \/ \E l \in LoginIds, t \in BOOLEAN, sn \in BOOLEAN : LoginTokensLoaded(l, t, sn)
    \/ SteamLoggedOn
    \/ \E err \in ServiceErrors : SteamError(err)
    \/ SteamDisconnected
    \/ \E genOk \in BOOLEAN : SteamGuardCode(genOk)
    \/ \E l \in LoginIds, ioOk \in BOOLEAN : KeyDeleted(l, ioOk)
    \/ \E l \in LoginIds, o \in Extractions, ioOk \in BOOLEAN : ExtractLoginKey(l, o, ioOk)
    \/ \E l \in LoginIds, o \in Extractions, ioOk \in BOOLEAN : ExtractToken(l, o, ioOk)
    \/ \E l \in LoginIds : LoginExtracted(l)
    \/ \E key \in EmittedKeys, ioOk \in BOOLEAN : LoginKeySaved(key, ioOk)

SpecAuth == InitAuth /\ [][NextAuth]_vars

\* the presence session manager where what the event loop owes
\* loginWithPassword's handler comes about: its delays end, and so do the file
\* operations it awaits
SpecAuthFair ==
    /\ SpecAuth
    /\ \A l \in LoginIds :
          /\ WF_vars(\E o \in Extractions, ioOk \in BOOLEAN : ExtractLoginKey(l, o, ioOk))
          /\ WF_vars(\E o \in Extractions, ioOk \in BOOLEAN : ExtractToken(l, o, ioOk))
          /\ WF_vars(LoginExtracted(l))

\* main() with a key in the key file and no shared secret
InitMain ==
    /\ enableFileCache = FALSE
    /\ GcInit
    /\ sharedSecret = FALSE
    /\ loginKeyFile \in {NoKeyFile, [exists |-> TRUE, content |-> <<"k", "1">>]}
    /\ AuthInit

\* the events of the coordinator client exist once main() has made the manager
MainGcEvents ==
    \/ Alive /\ main.gcCreated /\ GcConnected
    \/ Alive /\ main.gcCreated /\ GcError
    \/ \E w \in WaiterIds : Alive /\ WaitTimeout(w)

MainStartup ==
    \/ MainLogin
    \/ MainLoginFailed
    \/ MainSetPersona
    \/ MainCreateGc
    \/ MainGamesPlayed
    \/ MainConnect
    \/ MainRetry
    \/ GraceElapsed

MainTimers ==
    \/ BgTick
    \/ BgTickDone
    \/ \E c \in ChainIds : ChainPersona(c)
    \/ \E c \in ChainIds : ChainGamesPlayed(c)
    \/ \E c \in ChainIds : ChainConnect(c)
    \/ \E t \in ChainIds : RcTick(t)
    \/ \E t \in ChainIds : RcTickDone(t)

MainShutdown ==
    \/ Shutdown
    \/ \E closeOk \in BOOLEAN : ShutdownClosed(closeOk)
    \/ ShutdownExit

\* a second signal during a shutdown
MainShutdownAgain ==
    \/ ShutdownAgain
    \/ \E closeOk \in BOOLEAN : ShutdownAgainClosed(closeOk)
    \/ ShutdownAgainExit

\* the presence side while main() runs
MainAuth ==
    \/ \E l \in LoginIds : Alive /\ LoginKeyLoaded(l, TRUE)
    \/ \E l \in LoginIds : Alive /\ LoginTokensLoaded(l, FALSE, FALSE)
    \/ Alive /\ SteamLoggedOn
    \/ Alive /\ SteamError("AccessDenied")
    \/ Alive /\ SteamDisconnected
    \/ \E l \in LoginIds : Alive /\ KeyDeleted(l, TRUE)
    \/ \E l \in LoginIds : Alive /\ ExtractLoginKey(l, "none", TRUE)
    \/ \E l \in LoginIds : Alive /\ ExtractToken(l, "found", TRUE)
    \/ \E l \in LoginIds : Alive /\ LoginExtracted(l)

NextMain ==
    \/ MainStartup
    \/ MainTimers
    \/ MainShutdown
    \/ MainAuth
    \/ MainGcEvents

SpecMain == InitMain /\ [][NextMain]_vars

\* main() from its start to its exit, with up to two signals and without the
\* ticks of its timers
NextDown ==
    \/ MainStartup
    \/ MainShutdown
    \/ MainShutdownAgain
    \/ MainAuth
    \/ MainGcEvents

SpecDown == InitMain /\ [][NextDown]_vars

\* the registrations and what they must precede: the logins, main() up to its
\* retry loop, and requests to the fetcher once the server runs
OrderLogin ==
    \/ \E l \in LoginIds, ioOk \in BOOLEAN : Alive /\ LoginKeyLoaded(l, ioOk)
    \/ \E l \in LoginIds : Alive /\ LoginTokensLoaded(l, FALSE, FALSE)
    \/ Alive /\ SteamLoggedOn
    \/ \E err \in ServiceErrors : Alive /\ SteamError(err)
    \/ \E l \in LoginIds : Alive /\ KeyDeleted(l, TRUE)
    \/ \E l \in LoginIds : Alive /\ ExtractLoginKey(l, "none", TRUE)
    \/ \E l \in LoginIds : Alive /\ ExtractToken(l, "found", TRUE)
    \/ \E l \in LoginIds : Alive /\ LoginExtracted(l)

OrderFetch ==
    \E id \in {SteamIdA, AlphaId}, send \in SendResults :
        Alive /\ main.serverStarted /\ FetchProfile(id, send)

NextOrder ==
    \/ MainLogin
    \/ MainLoginFailed
    \/ MainSetPersona
    \/ MainCreateGc
    \/ MainGamesPlayed
    \/ MainConnect
    \/ MainRetry
    \/ OrderLogin
    \/ MainGcEvents
    \/ OrderFetch

SpecOrder == InitMain /\ [][NextOrder]_vars

\* the token file alone, whatever the account is called and whatever an
\* earlier run left in the file
InitStore ==
    /\ enableFileCache = FALSE
    /\ GcInit
    /\ sharedSecret = FALSE
    /\ loginKeyFile = NoKeyFile
    /\ SessionInit
    /\ ParseInit
    /\ accountName \in AccountNames
    /\ tokenFile \in TokenFiles
    /\ tokenSaved = NoSave
    /\ tokenLoaded = NoLoad

NextStore ==
    \/ \E data \in TokenInputs, now \in Timestamps, ioOk \in BOOLEAN :
          SaveSessionData(data, now, ioOk)
    \/ \E readOk \in BOOLEAN : LoadMachineAuthToken(readOk)

SpecStore == InitStore /\ [][NextStore]_vars

\* parseProfileResponse alone, whatever the response holds
InitParse ==
    /\ enableFileCache = FALSE
    /\ GcInit
    /\ sharedSecret = FALSE
    /\ loginKeyFile = NoKeyFile
    /\ SessionInit
    /\ StoreInit
    /\ response \in Profiles
    /\ parsedProfile = NoProfile

NextParse == ParseResponse

SpecParse == InitParse /\ [][NextParse]_vars

----------------------------------------------------------------------------
(* Properties *)

Occurrences(list, h) == Cardinality({i \in DOMAIN list : list[i] = h})

Registered(c) == c \in Range(respListeners[calls[c].id])

\* exactly 17 decimal digits
SeventeenDigits(s) ==
    /\ Len(s) = 17
    /\ \A i \in DOMAIN s : s[i] \in Digits

\* C1: when the request timer fires on a pending call, the call is rejected
\* with the timeout error and its listener is off the coordinator client; from
\* then on nothing, a late response event for its identifier included, runs
\* its handler or settles it again.
C1_TimeoutThenLateResponseIgnored ==
    [][\A c \in CallIds :
          /\ (calls[c].outcome = "none" /\ Timeout(c))
                => /\ calls'[c].outcome = "timeout"
                   /\ c \notin Range(respListeners'[calls[c].id])
          /\ calls[c].outcome = "timeout"
                => /\ ~Registered(c)
                   /\ calls'[c] = calls[c]]_vars

\* a response event arrived for the identifier of a call that had timed out
\* without ever receiving one, and found no handler
C1_Witness ==
    \E c \in CallIds :
        /\ calls[c].outcome = "timeout"
        /\ calls[c].runs = 0
        /\ last.kind = "response"
        /\ last.id = calls[c].id
        /\ last.call = 0

\* C2 as stated: with two requests pending on one identifier, one response
\* event runs the handler of exactly one of them.
C2_OneResponseSettlesOne ==
    [][\A id \in Identifiers, isObject \in BOOLEAN :
          (Len(respListeners[id]) = 2 /\ ProfileResponse(id, isObject))
             => Cardinality({c \in CallIds : calls'[c].runs > calls[c].runs}) = 1]_vars

\* C2, amended: each call in flight has its own listener and its own timer; a
\* response event for an identifier runs the handler of every call listed for
\* it at that time, once each, and of no other call, and leaves no listener
\* for it; a timer touches its own call only.
C2_ResponseReachesEveryPending ==
    /\ [](\A c \in CallIds :
            (calls[c].phase = "pending" /\ calls[c].runs = 0)
               => /\ calls[c].timer
                  /\ Occurrences(respListeners[calls[c].id], c) = 1)
    /\ [][/\ \A id \in Identifiers, isObject \in BOOLEAN :
                ProfileResponse(id, isObject)
                   => /\ \A c \in CallIds :
                            calls'[c].runs = calls[c].runs +
                               (IF c \in Range(respListeners[id]) THEN 1 ELSE 0)
                      /\ \A c \in CallIds :
                            c \notin Range(respListeners[id]) => calls'[c] = calls[c]
                      /\ respListeners'[id] = <<>>
          /\ \A c \in CallIds :
                Timeout(c)
                   => \A d \in CallIds \ {c} :
                         /\ calls'[d] = calls[d]
                         /\ Registered(d) => d \in Range(respListeners'[calls[d].id])]_vars

\* one response event has just run the handlers of two calls
C2_Witness ==
    /\ last.kind = "response"
    /\ last.call = 2
    /\ \E c, d \in CallIds :
          /\ c # d
          /\ calls[c].id = calls[d].id
          /\ calls[c].runs = 1
          /\ calls[d].runs = 1

\* C3: a settled call with a well-formed identifier has no listener and no
\* timer left and lost its listener exactly once; no call's listener is ever
\* taken off by anything but its own emit, timer or failed send.
C3_EveryExitDeregistersOnce ==
    \A c \in CallIds :
        LET r == calls[c]
        IN /\ (r.outcome \notin {"none", "invalidId"})
                 => /\ ~Registered(c)
                    /\ ~r.timer
                    /\ r.regs = 1
                    /\ r.deregs = 1
           /\ r.deregs <= r.regs
           /\ r.regs <= 1
           /\ Occurrences(respListeners[r.id], c) = r.regs - r.deregs
           /\ \A id \in Identifiers \ {r.id} : c \notin Range(respListeners[id])

\* a send failed while another request for the same identifier was pending,
\* and that request kept its listener
C3_Witness ==
    \E c, d \in CallIds :
        /\ c # d
        /\ calls[c].outcome = "sendError"
        /\ calls[d].id = calls[c].id
        /\ calls[d].phase = "pending"
        /\ Registered(d)

\* C4: a fetchProfile call whose identifier is not exactly 17 decimal digits
\* is rejected as invalid and has registered no listener, started no timer
\* and sent nothing; no listener exists for such an identifier.
C4_InvalidIdentifierTouchesNothing ==
    /\ \A c \in CallIds :
          (calls[c].phase # "unused" /\ ~SeventeenDigits(calls[c].id))
             => /\ calls[c].outcome = "invalidId"
                /\ calls[c].regs = 0
                /\ ~calls[c].timer
                /\ ~calls[c].sent
    /\ \A id \in Identifiers : ~SeventeenDigits(id) => respListeners[id] = <<>>

\* an 18-digit and a non-numeric identifier were both rejected
C4_Witness ==
    \E c, d \in CallIds :
        /\ calls[c].id = LongId
        /\ calls[c].outcome = "invalidId"
        /\ calls[d].id = AlphaId
        /\ calls[d].outcome = "invalidId"

\* C5 as stated: whenever the route has called requestPlayersProfile,
\* isGcReady() was true at that moment.
C5_SendOnlyWhileReady ==
    \A c \in CallIds :
        (calls[c].viaApi /\ calls[c].sent) => calls[c].readyAtSend

GcDownEvents == {"gcError", "disconnectedFromGC"}

\* C6: a coordinator 'error' or 'disconnectedFromGC' event, in any state,
\* leaves isGcReady() false, and while isGcReady() is false no step other than
\* a 'connectedToGC' event leaves it true.
C6_ErrorOrDisconnectDowngrades ==
    [][/\ last'.kind \in GcDownEvents => ~IsGcReady'
       /\ (~IsGcReady /\ last'.kind # "connectedToGC") => ~IsGcReady']_vars

\* an 'error' or 'disconnectedFromGC' event arrived while the manager was
\* ready, and the manager is not ready any more
C6_Witness ==
    /\ last.kind \in GcDownEvents
    /\ last.ready
    /\ ~IsGcReady
    /\ ~isReady
    /\ ~isConnected

\* C7: isGcReady() turns from false to true in a 'connectedToGC' event only:
\* no 'connectionStatus' code, no 'error', no 'disconnectedFromGC', no
\* attemptConnection, waitForReady or isGcReady call has it true afterwards
\* unless it was true before.
C7_ReadyOnlyByConnectedEvent ==
    [][/\ (IsGcReady' /\ ~IsGcReady) => last'.kind = "connectedToGC"
       /\ last'.kind \in {"connectionStatus", "gcError", "disconnectedFromGC",
                          "attemptConnection", "waitForReady", "waitTimeout",
                          "health"}
             => /\ isReady' => isReady
                /\ isConnected' => isConnected]_vars

\* 'connectionStatus' with code 4 (Connected) arrived while the manager was
\* not ready, and it is still not ready
C7_Witness ==
    /\ last.kind = "connectionStatus"
    /\ last.call = 4
    /\ ~last.ready
    /\ ~IsGcReady

\* C8: waitForReady is done at once when the manager is ready, registering
\* nothing; a call that waits holds a timer and both listeners for as long as
\* the manager is not ready, is resolved by the next 'connectedToGC' event or
\* rejected by its timer, and once settled has no listener and no timer left.
C8_WaitForReadyCleansUp ==
    /\ [](\A w \in WaiterIds :
            /\ waiters[w].phase = "waiting"
                  => /\ waiters[w].timer
                     /\ Occurrences(readyListeners, w) = 1
                     /\ Occurrences(statusListeners, w) = 1
                     /\ ~isReady
            /\ waiters[w].phase = "settled"
                  => /\ ~waiters[w].timer
                     /\ w \notin Range(readyListeners)
                     /\ w \notin Range(statusListeners)
                     /\ waiters[w].settles = 1
            /\ waiters[w].immediate => waiters[w].outcome = "resolved")
    /\ [][\A w \in WaiterIds :
            /\ (waiters[w].phase = "unused" /\ waiters'[w].phase # "unused")
                  => /\ isReady => (waiters'[w].immediate /\ UNCHANGED <<readyListeners, statusListeners>>)
                     /\ ~isReady => waiters'[w].phase = "waiting"
            /\ (waiters[w].phase = "waiting" /\ waiters'[w].outcome = "resolved")
                  => last'.kind = "connectedToGC"
            /\ (waiters[w].phase = "waiting" /\ last'.kind = "connectedToGC")
                  => waiters'[w].outcome = "resolved"
            /\ (waiters[w].phase = "waiting" /\ waiters'[w].outcome = "timeout")
                  => (last'.kind = "waitTimeout" /\ last'.call = w)]_vars

\* one waitForReady call was rejected by its timer, another was resolved by a
\* 'connectedToGC' event, and no listener of either is left
C8_Witness ==
    /\ \E w, x \in WaiterIds :
          /\ waiters[w].outcome = "timeout"
          /\ waiters[x].outcome = "resolved"
          /\ ~waiters[x].immediate
    /\ readyListeners = <<>>
    /\ statusListeners = <<>>

\* C9: the process exits exactly when the fifth consecutive presence 'error'
\* or 'disconnected' event with no 'loggedOn' in between arrives, not before;
\* the counter equals the number of such events since the last 'loggedOn', so
\* the first disconnect after a 'loggedOn' counts as 1.
C9_ExitAtFifthConsecutiveDisconnect ==
    /\ disconnectCount = streak
    /\ streak <= 5
    /\ exited <=> streak = 5

\* the process exited although a 'loggedOn' had reset a counter that was not 0
C9_Witness ==
    /\ exited
    /\ wasReset
    /\ disconnectCount = 5

\* C10: a login() that finds a key in the key file takes the key path: its
\* logOn options hold no password and no one-time code, it generates no code,
\* calls logOn once, and is resolved by a 'loggedOn' event; a login() on the
\* password path found no key.
C10_KeyLoginUsesNoPassword ==
    /\ [](\A l \in LoginIds :
            LET r == logins[l]
            IN /\ (r.heldKey /\ r.phase \notin {"unused", "loadingKey"})
                     => r.path = "key"
               /\ r.path = "password" => ~r.heldKey
               /\ r.path = "key"
                     => /\ ~r.options.password
                        /\ ~r.options.twoFactorCode
                        /\ r.options.loginKey \/ r.options.refreshToken
                        /\ r.codes = 0
                        /\ r.logOns = 1)
    /\ [][\A l \in LoginIds :
            (logins[l].path = "key" /\ logins[l].outcome = "none"
                /\ logins'[l].outcome = "resolved")
               => SteamLoggedOn]_vars

\* a login() that was passed a secret found a key, logged on with it and was
\* resolved
C10_Witness ==
    \E l \in LoginIds :
        /\ logins[l].heldKey
        /\ logins[l].secretArg
        /\ logins[l].path = "key"
        /\ logins[l].outcome = "resolved"

\* C11 as stated: whenever a login on the key path is rejected, the key file
\* is gone at the moment it rejects.
C11_KeyFileGoneAtReject ==
    [][\A l \in LoginIds :
          (logins[l].path = "key" /\ logins[l].outcome = "none"
             /\ logins'[l].outcome = "rejected")
             => ~loginKeyFile'.exists]_vars

\* C11, the part that holds whatever the unlink does: a service error on a login awaiting the answer to a key logOn
\* takes off its 'loggedOn' handler and starts the unlink of the key file; the
\* login rejects only when the unlink has finished, with the error the service
\* gave, and the file is gone then if the unlink succeeded; a key login calls
\* logOn once and never with a password.
C11_RejectsAfterUnlinkAttempt ==
    /\ [](\A l \in LoginIds :
            logins[l].path = "key"
               => /\ logins[l].logOns <= 1
                  /\ ~logins[l].options.password
                  /\ logins[l].outcome = "rejected" => logins[l].error \in ServiceErrors)
    /\ [][\A l \in LoginIds :
            /\ \A err \in ServiceErrors :
                  (SteamError(err) /\ ~exited' /\ logins[l].path = "key"
                     /\ logins[l].phase = "awaiting")
                     => /\ logins'[l].phase = "deletingKey"
                        /\ logins'[l].outcome = "none"
                        /\ logins'[l].error = err
                        /\ l \notin Range(loggedOnListeners')
            /\ (logins[l].path = "key" /\ logins[l].outcome = "none"
                  /\ logins'[l].outcome = "rejected")
                  => /\ logins[l].phase = "deletingKey"
                     /\ logins'[l].error = logins[l].error
                     /\ logins'[l].logOns = 1
                     /\ \E ioOk \in BOOLEAN : KeyDeleted(l, ioOk)
            /\ KeyDeleted(l, TRUE) => ~loginKeyFile'.exists]_vars

\* a login that found a key in the file was rejected with the service's error
\* after one logOn, and the file is gone
C11_Witness ==
    \E l \in LoginIds :
        /\ logins[l].path = "key"
        /\ logins[l].heldKey
        /\ logins[l].outcome = "rejected"
        /\ logins[l].error = "InvalidPassword"
        /\ logins[l].logOns = 1
        /\ ~loginKeyFile.exists

\* C12: with no shared secret set, a 'steamGuardCode' prompt never gets its
\* callback called and changes no login; a login is settled only by a
\* 'loggedOn' or 'error' event or by the continuation one of them started.
C12_NoSecretNoAutoAnswer ==
    /\ [](~sharedSecret => guard # "answered")
    /\ [][/\ \A genOk \in BOOLEAN :
               (SteamGuardCode(genOk) /\ ~sharedSecret)
                  => /\ guard' = "prompted"
                     /\ logins' = logins
                     /\ loggedOnListeners' = loggedOnListeners
                     /\ errorListeners' = errorListeners
          /\ \A l \in LoginIds :
               logins'[l].outcome # logins[l].outcome
                  => \/ SteamLoggedOn
                     \/ \E err \in ServiceErrors : SteamError(err)
                     \/ logins[l].phase = "verifying" /\ LoginExtracted(l)
                     \/ logins[l].phase = "deletingKey"
                           /\ \E ioOk \in BOOLEAN : KeyDeleted(l, ioOk)
          /\ \A l \in LoginIds :
               (logins'[l].phase # logins[l].phase
                  /\ logins'[l].phase \in {"extracting", "deletingKey"})
                  => SteamLoggedOn \/ \E err \in ServiceErrors : SteamError(err)]_vars

\* a prompt went unanswered for want of a secret while a login was waiting for
\* the service's answer, and the login is still pending
C12_Witness ==
    /\ ~sharedSecret
    /\ guard = "prompted"
    /\ \E l \in LoginIds :
          /\ logins[l].phase = "awaiting"
          /\ logins[l].outcome = "none"
          /\ l \in Range(loggedOnListeners)
          /\ l \in Range(errorListeners)

\* C13: the loop calls waitForReady() at most maxRetries times, and between
\* two calls come the delay and then attemptConnection(); when main() is past
\* the loop the background timer has been started exactly if every attempt
\* failed; a tick that finds the manager ready stops the timer without calling
\* attemptConnection(), and a stopped timer neither ticks nor comes back.
C13_RetryLoopThenBackgroundTimer ==
    /\ [](/\ main.attempt <= maxRetries
          /\ main.fails <= main.attempt
          /\ Occurrences(main.trace, "waitForReady") = main.attempt
          /\ \A i \in DOMAIN main.trace :
                /\ (main.trace[i] = "waitForReady" /\ main.trace[i - 1] # "serverStart")
                      => /\ main.trace[i - 1] = "attemptConnection"
                         /\ main.trace[i - 2] = "delay"
                         /\ main.trace[i - 3] = "waitForReady"
                /\ main.trace[i] = "delay" => main.trace[i - 1] = "waitForReady"
          /\ main.bgStarted => main.fails = maxRetries /\ ~main.connected
          /\ main.pc = "running" => (main.bgStarted <=> main.fails = maxRetries))
    /\ [][/\ (BgTick /\ IsGcReady)
                => /\ ~main'.liveBg
                   /\ ~main'.backgroundRetry
                   /\ last' = last
          /\ (BgTickDone /\ IsGcReady) => ~main'.liveBg
          /\ BgTickDone => last' = last
          /\ ~main.liveBg => ~BgTick
          /\ (main.bgStarted /\ ~main.liveBg) => ~main'.liveBg]_vars

\* three attempts failed, the background timer ran, and a tick that found the
\* manager ready has stopped it
C13_Witness ==
    /\ main.attempt = maxRetries
    /\ main.fails = maxRetries
    /\ main.bgStarted
    /\ ~main.liveBg
    /\ ~main.bgBusy
    /\ main.shutdown = "none"
    /\ IsGcReady

\* C14: when main's 'disconnected' listener has run, neither the startup
\* background timer nor a recovery timer is running.
C14_DisconnectStopsEveryTimer ==
    [][(SteamDisconnected /\ main.monitoring /\ ~exited')
          => /\ ~main'.liveBg
             /\ main'.liveRc = {}]_vars

\* the steps of a recovery callback, in the order of the code
RecoverySteps == <<"setPersona", "gamesPlayed", "attemptConnection", "setInterval">>

\* C15: a 'loggedOn' that follows a 'disconnected' and comes after the grace
\* period schedules the recovery callback.
C15_EveryLateReconnectRecovers ==
    [][(SteamLoggedOn /\ main.hasInitialLogin /\ main.downSince)
          => main'.nextChain = main.nextChain + 1]_vars

\* C15, the part that holds: a 'loggedOn' after the grace period schedules the
\* recovery callback exactly when main's 'disconnected' listener has run since
\* the last 'loggedOn'; a callback takes its steps in the order of
\* RecoverySteps; none is scheduled before the grace period is over.
C15_RecognisedReconnectRecovers ==
    /\ [](/\ \A c \in ChainIds :
                \E n \in 0..Len(RecoverySteps) :
                    main.chains[c].steps = SubSeq(RecoverySteps, 1, n)
          /\ ~main.hasInitialLogin => main.nextChain = 1)
    /\ [][SteamLoggedOn
             => (main'.nextChain = main.nextChain + 1
                   <=> (main.hasInitialLogin /\ ~main.isSteamLoggedIn))]_vars

\* both recovery callbacks have run to their end
C15_Witness ==
    \A c \in ChainIds : main.chains[c].steps = RecoverySteps

\* C16: once shutdown has cleared the timers, no background timer, startup
\* or recovery, is running, then or later.
C16_NoTimerAfterShutdown ==
    main.shutdown # "none" => (~main.liveBg /\ main.liveRc = {})

\* C16, the part that holds: the only timers running are those the two
\* handles name, so at most one recovery timer at a time; the clearing step of
\* shutdown leaves none; a tick that finds the manager ready leaves no
\* recovery timer.
C16_TimersFollowHandles ==
    /\ [](/\ main.liveBg <=> main.backgroundRetry
          /\ main.liveRc = (IF main.gcReconnectInterval = 0 THEN {}
                            ELSE {main.gcReconnectInterval}))
    /\ [][/\ Shutdown => (~main'.liveBg /\ main'.liveRc = {})
          /\ \A t \in ChainIds :
                ((RcTick(t) \/ RcTickDone(t)) /\ IsGcReady) => main'.liveRc = {}]_vars

\* the second recovery callback has replaced the first one's timer
C16_Witness ==
    /\ \A c \in ChainIds : main.chains[c].pc = "done"
    /\ main.liveRc = {2}
    /\ main.gcReconnectInterval = 2

\* the calls of main()'s startup, in the order of the code
StartupSteps ==
    <<"login", "setPersona", "newGCConnection", "gamesPlayed", "attemptConnection",
      "newProfileFetcher", "serverStart">>

\* C17: the calls main() has made so far are the first ones of StartupSteps,
\* in that order, followed by nothing but the retry loop; setPersona comes
\* only after login() has resolved, the manager exists before the game is
\* reported, and the server is started only after all of them.
C17_StartupInOrder ==
    /\ \A i \in DOMAIN main.trace :
          i <= Len(StartupSteps) => main.trace[i] = StartupSteps[i]
    /\ Len(main.trace) >= 2 => logins[1].outcome = "resolved"
    /\ main.gcCreated <=> Len(main.trace) >= 3
    /\ main.serverStarted <=> Len(main.trace) >= Len(StartupSteps)
    /\ main.serverStarted => main.gcCreated /\ logins[1].outcome = "resolved"
    /\ Len(main.trace) \notin 5..6

\* main() is through its startup: the server runs and the loop has connected
C17_Witness ==
    /\ main.serverStarted
    /\ main.pc = "running"
    /\ main.connected
    /\ SubSeq(main.trace, 1, Len(StartupSteps)) = StartupSteps

\* C18: whenever requestPlayersProfile is called the call's response listener
\* is on the coordinator client; whenever logOn is called both handlers of
\* that login are on the presence client, and the watchdog counts every
\* 'error', the first one included; attemptConnection() is called only on a
\* manager whose constructor has registered the state listeners, so that the
\* first 'connectedToGC' makes it ready.
C18_ListenersBeforeTriggers ==
    /\ [](/\ \A c \in CallIds : calls[c].sent => calls[c].heard
          /\ \A l \in LoginIds : logins[l].logOns > 0 => logins[l].heard
          /\ Occurrences(main.trace, "attemptConnection") > 0 => main.gcCreated
          /\ last.kind = "attemptConnection" => main.gcCreated)
    /\ [][/\ \A err \in ServiceErrors :
                SteamError(err) => disconnectCount' = disconnectCount + 1
          /\ GcConnected => IsGcReady'
          /\ \A l \in LoginIds :
                logins'[l].logOns > logins[l].logOns
                   => /\ l \in Range(loggedOnListeners')
                      /\ l \in Range(errorListeners')
          /\ \A c \in CallIds :
                (~calls[c].sent /\ calls'[c].sent /\ calls'[c].outcome = "none")
                   => c \in Range(respListeners'[calls'[c].id])]_vars

\* a login has called logOn, main() has called attemptConnection(), and a
\* request has been sent, each with its listeners in place
C18_Witness ==
    /\ \E l \in LoginIds : logins[l].logOns = 1 /\ logins[l].heard
    /\ Occurrences(main.trace, "attemptConnection") > 0
    /\ \E c \in CallIds :
          /\ calls[c].sent
          /\ calls[c].heard
          /\ calls[c].outcome = "none"
          /\ Registered(c)

\* the ways a fetch fails
FetchFailures == Outcomes \ {"none", "resolved", "invalidId"}

C20_LoadYieldsStructuredArtifact ==
    (/\ tokenLoaded.done
     /\ tokenLoaded.readOk
     /\ tokenLoaded.saved.done
     /\ tokenLoaded.saved.data.kind = "string"
     /\ tokenLoaded.saved.data.chars # <<>>)
        => /\ tokenLoaded.value.kind = "object"
           /\ Field(tokenLoaded.value, KeyToken) = tokenLoaded.saved.data

\* C20: after a non-empty string was saved as the token, the file holds a
\* structured artifact (token, account name, time of saving) whose token
\* field is that string, and a load that read the file returns the string
\* itself.
C20_SaveThenLoadYieldsToken ==
    /\ (/\ tokenSaved.done
        /\ tokenSaved.data.kind = "string"
        /\ tokenSaved.data.chars # <<>>)
           => LET parsed == JsonParse(tokenFile.content)
              IN /\ tokenFile.exists
                 /\ parsed.ok
                 /\ parsed.value.kind = "object"
                 /\ Field(parsed.value, KeyToken) = tokenSaved.data
                 /\ Field(parsed.value, KeyAccountName) = JString(accountName)
                 /\ HasField(parsed.value, KeySavedAt)
    /\ (/\ tokenLoaded.done
        /\ tokenLoaded.readOk
        /\ tokenLoaded.saved.done
        /\ tokenLoaded.saved.data.kind = "string"
        /\ tokenLoaded.saved.data.chars # <<>>)
           => tokenLoaded.value = tokenLoaded.saved.data

\* a token with a quote and a backslash in it was saved and loaded
C20_Witness ==
    /\ tokenLoaded.done
    /\ tokenLoaded.readOk
    /\ tokenLoaded.saved.done
    /\ tokenLoaded.saved.data = JString(<<Quote, Backslash>>)
    /\ tokenLoaded.value = JString(<<Quote, Backslash>>)

\* the numbers among the elements of a list
NumbersOf(list) == {list[i].value : i \in {j \in DOMAIN list : list[j].type = "number"}}

\* C21: when the response has a list of display items, the record's medals
\* hold no identifier twice and hold exactly the numeric elements of the
\* list, each once; the other elements are dropped.
C21_MedalsAreTheDistinctNumbers ==
    (parsedProfile.parsed /\ response.display_items_defidx.shape = "array")
        => LET medals == parsedProfile.medals
               reported == response.display_items_defidx.items
           IN /\ \A i, j \in DOMAIN medals :
                    medals[i].medalId = medals[j].medalId => i = j
              /\ {medals[i].medalId : i \in DOMAIN medals} = NumbersOf(reported)
              /\ Len(medals) = Cardinality(NumbersOf(reported))

\* a list with a number twice and an element that is no number was parsed
C21_Witness ==
    /\ parsedProfile.parsed
    /\ response.display_items_defidx.shape = "array"
    /\ response.display_items_defidx.items = <<NumberEntry(1), StringEntry, NumberEntry(1)>>
    /\ parsedProfile.medals = <<[medalId |-> 1]>>

C23_PasswordLoginResolves ==
    /\ [](\A l \in LoginIds :
            (logins[l].path = "password" /\ logins[l].loggedOn)
               => /\ logins[l].outcome \in {"none", "resolved"}
                  /\ logins[l].scans <= TokenRetries + 1
                  /\ logins[l].outcome = "resolved"
                        => /\ logins[l].keyScans = 1
                           /\ logins[l].tokenSaved \/ logins[l].scans = TokenRetries + 1)
    /\ [][\A l \in LoginIds :
            logins'[l].scans # logins[l].scans
               => /\ ~logins[l].tokenSaved
                  /\ logins'[l].scans = logins[l].scans + 1]_vars
    /\ \A l \in LoginIds :
          (logins[l].path = "password" /\ logins[l].loggedOn)
             ~> (logins[l].outcome = "resolved" \/ exited)

\* a password login resolved after every look for a token had failed and
\* nothing was written
C23_Witness ==
    \E l \in LoginIds :
        /\ logins[l].path = "password"
        /\ logins[l].outcome = "resolved"
        /\ logins[l].scans = TokenRetries + 1
        /\ ~logins[l].tokenSaved
        /\ ~tokenFile.exists
        /\ ~loginKeyFile.exists

\* C24: attemptConnection() calls connect when the client has it, else
\* launch, else requestSession, and nothing when the client has none of them;
\* whether or not the method throws, the promise resolves and the manager's
\* flags stay as they were.
C24_AttemptConnectionNeverFails ==
    /\ [](connectTry.outcome # "rejected")
    /\ [][\A offered \in SUBSET Capabilities, throws \in BOOLEAN :
            AttemptConnection(offered, throws)
               => /\ connectTry'.outcome = "resolved"
                  /\ connectTry'.invoked \in offered \cup {"none"}
                  /\ connectTry'.invoked = "none" <=> offered = {}
                  /\ connectTry'.invoked = "launch" => "connect" \notin offered
                  /\ connectTry'.invoked = "requestSession"
                        => offered = {"requestSession"}
                  /\ UNCHANGED gcFlags]_vars

\* the method attemptConnection() called threw, and the call resolved
C24_Witness ==
    /\ connectTry.invoked = "launch"
    /\ connectTry.threw
    /\ connectTry.outcome = "resolved"
    /\ last.kind = "attemptConnection"

\* the key begins with e, y and then J or A
JwtShaped(key) ==
    /\ Len(key) >= 3
    /\ key[1] = "e"
    /\ key[2] = "y"
    /\ key[3] \in {"J", "A"}

\* C25: a login by key calls logOn with the key as read from the file
\* (trimmed, not empty); when the key begins with 'eyJ' or 'eyA' it goes as
\* the refresh token, with no account name and no login key, and otherwise as
\* the login key together with the account name; neither carries a password.
C25_KeyClassification ==
    \A l \in LoginIds :
        (logins[l].path = "key" /\ logins[l].logOns > 0)
           => LET o == logins[l].options
              IN /\ o.key # <<>>
                 /\ Trim(o.key) = o.key
                 /\ ~o.password
                 /\ JwtShaped(o.key)
                       => o.refreshToken /\ ~o.accountName /\ ~o.loginKey
                 /\ ~JwtShaped(o.key)
                       => o.loginKey /\ o.accountName /\ ~o.refreshToken

\* logins by key have called logOn with an 'eyA' key as the refresh token
C25_Witness ==
    \E l \in LoginIds :
        /\ logins[l].path = "key"
        /\ logins[l].logOns = 1
        /\ logins[l].options.key = <<"e", "y", "A", "h">>
        /\ logins[l].options.refreshToken
        /\ ~logins[l].options.accountName

\* the shutdowns that were started
ShutdownsStarted ==
    (IF main.shutdown # "none" THEN 1 ELSE 0) + (IF main.again # "none" THEN 1 ELSE 0)

\* C26: a process that a shutdown has ended exits with code 0 after the
\* server was closed, the session logged off and the drain interval waited
\* for, in this order, and every shutdown that was started has logged off, a
\* second one started during the first included.
C26_ShutdownLogsOffAndExitsZero ==
    (main.shutdown = "exited" \/ main.again = "exited")
       => /\ main.exitCode = 0
          /\ main.logOffs = ShutdownsStarted
          /\ SubSeq(main.downSteps, Len(main.downSteps) - 2, Len(main.downSteps))
                = <<"logOff", "delay", "exit">>

\* C26, the part that holds: a shutdown that no second signal disturbs and
\* whose close() resolves closes the server, logs off, waits and exits with 0;
\* no shutdown logs off before its close() has resolved.
C26_UndisturbedShutdownInOrder ==
    /\ (main.shutdown = "exited" /\ main.again = "none" /\ main.exitCode = 0)
          => /\ main.downSteps = <<"close", "logOff", "delay", "exit">>
             /\ main.logOffs = 1
    /\ main.logOffs <= ShutdownsStarted

\* an undisturbed shutdown has run to its exit
C26_Witness ==
    /\ main.shutdown = "exited"
    /\ main.again = "none"
    /\ main.exitCode = 0
    /\ main.logOffs = 1

\* C27: a call whose response handler has run has its timer cancelled and
\* does not end in a timeout, whatever the response was.
C27_ResponseCancelsTimeout ==
    \A c \in CallIds :
        calls[c].runs > 0 => (~calls[c].timer /\ calls[c].outcome # "timeout")

\* C27, the part that holds: a response that is an object cancels the timer
\* as the handler starts, and that call does not end in a timeout.
C27_ObjectResponseCancelsTimeout ==
    \A c \in CallIds :
        (calls[c].runs > 0 /\ ~calls[c].threw)
           => (~calls[c].timer /\ calls[c].outcome # "timeout")

\* a call got a response that was an object and was resolved from it
C27_Witness ==
    \E c \in CallIds :
        /\ calls[c].runs = 1
        /\ ~calls[c].threw
        /\ calls[c].outcome = "resolved"

\* C28: the timer's callback of a fetch leaves isGcReady() as it was, and no
\* step in which a fetch is started, handled or settled, by a response, a
\* failed send, a failed save or a timeout, changes the manager's two flags.
C28_FetchLeavesManagerAlone ==
    /\ [][\A c \in CallIds :
            Timeout(c) => (IsGcReady' = IsGcReady /\ UNCHANGED gcFlags)]_vars
    /\ [][calls' # calls => UNCHANGED gcFlags]_vars

\* a request timed out while the manager was ready, and the manager still is
C28_Witness ==
    /\ last.kind = "timeout"
    /\ IsGcReady
    /\ \E c \in CallIds : calls[c].outcome = "timeout" /\ calls[c].readyAtSend

\* C29: every call of fetchProfile is settled in the end, whatever responses
\* come and however the send goes, provided its timer fires while it is set
\* and its file write ends; resolve or reject is called once for it, and a
\* call that is not settled still has its timer or is writing its file.
C29_EveryFetchSettlesOnce ==
    /\ \A c \in CallIds : calls[c].phase # "unused" ~> calls[c].outcome # "none"
    /\ [](\A c \in CallIds :
            /\ calls[c].settles <= 1
            /\ calls[c].outcome # "none" <=> calls[c].settles = 1
            /\ (calls[c].phase # "unused" /\ calls[c].outcome = "none")
                  => (calls[c].timer \/ calls[c].phase = "handling"))
    /\ [][\A c \in CallIds :
            calls[c].outcome # "none" => calls'[c].outcome = calls[c].outcome]_vars

\* a call whose response was no object was settled by its timer
C29_Witness ==
    \E c \in CallIds :
        /\ calls[c].threw
        /\ calls[c].outcome = "timeout"
        /\ calls[c].settles = 1

\* C30: while the presence session is disconnected, after a 'disconnected'
\* event and before the next 'loggedOn', no recovery timer is running and none
\* is created, also when a recovery callback of an earlier reconnect is still
\* at one of its delays at the disconnect.
C30_NoRecoveryTimerWhileDisconnected ==
    (main.monitoring /\ main.downSince /\ ~main.isSteamLoggedIn) => main.liveRc = {}

\* C31: at most one recovery timer runs at any time, whatever the order of
\* disconnects and reconnects: a recovery callback that installs its timer
\* leaves that timer as the only one, and every running recovery timer is the
\* one the handle gcReconnectInterval names.
C31_OneRecoveryTimer ==
    /\ [](/\ Cardinality(main.liveRc) <= 1
          /\ \A t \in main.liveRc : main.gcReconnectInterval = t)
    /\ [][\A c \in ChainIds :
            ChainConnect(c) => (main'.liveRc = {c} /\ main'.gcReconnectInterval = c)]_vars

\* the second recovery callback found the first one's timer running and
\* replaced it
C31_Witness ==
    /\ main.replaced
    /\ main.liveRc = {2}
    /\ main.chains[1].pc = "done"

\* C32: a recovery callback is scheduled only by a 'loggedOn' that arrives
\* with hasInitialLogin set and after a 'disconnected' the listener recorded,
\* and one at most for each disconnect: a 'loggedOn' with no 'disconnected'
\* since the last 'loggedOn' schedules nothing, and neither does a 'loggedOn'
\* within the grace period, which only marks the session as logged in.
C32_RecoveryOncePerCycle ==
    /\ [][main'.nextChain # main.nextChain
            => /\ SteamLoggedOn
               /\ main.monitoring /\ main.hasInitialLogin
               /\ ~main.isSteamLoggedIn /\ main.downSince
               /\ main'.nextChain = main.nextChain + 1
               /\ main'.chains[main.nextChain].pc = "steamInitDelay"
               /\ main'.isSteamLoggedIn /\ ~main'.downSince]_vars
    /\ [][(SteamLoggedOn /\ ~main.downSince) => main'.chains = main.chains]_vars
    /\ [][(SteamLoggedOn /\ main.monitoring /\ ~main.hasInitialLogin)
            => (main'.chains = main.chains /\ main'.isSteamLoggedIn)]_vars
    /\ [](\A c \in ChainIds : c >= main.nextChain => main.chains[c] = NoChain)

\* two disconnects, each followed by a reconnect after the grace period, have
\* each scheduled one recovery callback
C32_Witness ==
    /\ main.nextChain = 3
    /\ main.isSteamLoggedIn
    /\ ~main.downSince
    /\ main.chains[2].pc = "steamInitDelay"

\* C33: in every state of the connection manager isReady implies
\* isConnected, so isGcReady() is true exactly when isReady is, and
\* waitForReady() returns at once exactly when isGcReady() is true.
C33_ReadyImpliesConnected ==
    /\ [](isReady => isConnected)
    /\ [](IsGcReady <=> isReady)
    /\ [][WaitForReady => (waiters'[nextWaiter].immediate <=> IsGcReady)]_vars

\* waitForReady() returned at once with the manager ready
C33_Witness ==
    /\ last.kind = "waitForReady"
    /\ waiters[last.call].immediate
    /\ last.ready
    /\ IsGcReady

\* C34: a 'connectionStatus' event with status 0, 1 or 2 leaves isGcReady()
\* false whatever the state was; status 3 and status 4 leave isConnected and
\* isReady as they were.
C34_StatusEffect ==
    [][\A status \in StatusCodes :
          GcConnectionStatus(status)
             => IF status \in {0, 1, 2} THEN ~IsGcReady'
                ELSE UNCHANGED gcFlags]_vars

\* a ready manager has received status 0: it still counts as connected and
\* is no longer ready
C34_Witness ==
    /\ last.kind = "connectionStatus"
    /\ last.call = 0
    /\ last.ready
    /\ isConnected
    /\ ~isReady

\* C35: while the process runs the disconnect counter is at least 0 and less
\* than MAX_DISCONNECTS; it changes only by one more on a presence 'error' or
\* 'disconnected' event and by the reset to 0 on 'loggedOn', and the event that
\* takes it to MAX_DISCONNECTS ends the process.
C35_CounterBelowThreshold ==
    /\ [](~exited => (disconnectCount >= 0 /\ disconnectCount < MAX_DISCONNECTS))
    /\ [][disconnectCount' # disconnectCount
            => \/ /\ disconnectCount' = disconnectCount + 1
                  /\ SteamDisconnected \/ \E err \in ServiceErrors : SteamError(err)
               \/ /\ disconnectCount' = 0
                  /\ SteamLoggedOn]_vars
    /\ [][disconnectCount' = MAX_DISCONNECTS => exited']_vars

\* the counter stands one below the threshold, after a 'loggedOn' had reset
\* it, and the process runs
C35_Witness ==
    /\ ~exited
    /\ wasReset
    /\ disconnectCount = MAX_DISCONNECTS - 1

\* C36: the presence 'error' and 'disconnected' handlers count and never log
\* in again: logOn is called by login() only, once for each login() that has
\* come to its logOn, and no event of the presence client calls it.
C36_LogOnOnlyFromLogin ==
    /\ [](\A l \in LoginIds :
            /\ logins[l].logOns <= 1
            /\ logins[l].phase \notin {"unused", "loadingKey", "loadingTokens"}
                  => logins[l].logOns = 1)
    /\ [][\A l \in LoginIds :
            logins'[l].logOns # logins[l].logOns
               => \/ \E ioOk \in BOOLEAN : LoginKeyLoaded(l, ioOk)
                  \/ \E t \in BOOLEAN, sn \in BOOLEAN : LoginTokensLoaded(l, t, sn)]_vars
    /\ [][(SteamDisconnected \/ \E err \in ServiceErrors : SteamError(err))
            => /\ disconnectCount' = disconnectCount + 1
               /\ \A l \in LoginIds : logins'[l].logOns = logins[l].logOns]_vars

\* a login was rejected by an 'error', a 'disconnected' followed, and logOn
\* was called the one time
C36_Witness ==
    \E l \in LoginIds :
        /\ logins[l].outcome = "rejected"
        /\ logins[l].logOns = 1
        /\ disconnectCount >= 2
        /\ ~exited

\* C37: an 'error' that a key login receives before 'loggedOn', of whatever
\* class, is counted by the watchdog and has the key file deleted, so that the
\* next login() finds no key and takes the password path.
C37_ErrorForcesPasswordPath ==
    [][\A l \in LoginIds :
          /\ \A err \in ServiceErrors :
                (SteamError(err) /\ logins[l].path = "key" /\ logins[l].phase = "awaiting")
                   => disconnectCount' = disconnectCount + 1
          /\ (logins[l].phase = "deletingKey" /\ logins'[l].outcome = "rejected")
                => ChoosePath(LoadLoginKey(loginKeyFile', TRUE)) = "password"]_vars

\* C38: a login() is settled once at most and its outcome never changes: the
\* first of 'loggedOn' and 'error' takes both per-login handlers off the
\* client, so a later 'error' after a login that succeeded, or a later
\* 'loggedOn' after one that failed, runs no handler of that login and
\* settles nothing.
C38_LoginSettlesOnce ==
    /\ [](\A l \in LoginIds :
            /\ logins[l].settles <= 1
            /\ logins[l].outcome # "none" <=> logins[l].settles = 1
            /\ logins[l].loggedOn => logins[l].outcome # "rejected"
            /\ logins[l].error # "none" => logins[l].outcome # "resolved"
            /\ ~(logins[l].loggedOn /\ logins[l].error # "none")
            /\ (logins[l].loggedOn \/ logins[l].error # "none")
                  => (l \notin Range(loggedOnListeners) /\ l \notin Range(errorListeners)))
    /\ [][\A l \in LoginIds :
            logins[l].outcome # "none" => logins'[l] = logins[l]]_vars

\* a login on the password path was rejected by an 'error', and a later
\* 'loggedOn' reset the watchdog's counter without touching it
C38_Witness ==
    \E l \in LoginIds :
        /\ logins[l].outcome = "rejected"
        /\ logins[l].error # "none"
        /\ ~logins[l].loggedOn
        /\ logins[l].settles = 1
        /\ wasReset
        /\ disconnectCount = 0

\* C39: when the login main() awaits is rejected, main() takes no further
\* startup step: the connection manager is not constructed, no game is
\* reported, attemptConnection() is not called and the server is not started;
\* the one step left to main() is its catch, which exits with code 1.
C39_RejectedLoginStopsStartup ==
    /\ [](logins[1].outcome = "rejected"
            => /\ main.trace = <<"login">>
               /\ ~main.gcCreated
               /\ ~main.serverStarted
               /\ ~main.monitoring
               /\ ~main.signals
               /\ main.pc \in {"login", "exited"}
               /\ main.exitCode \in {-1, 1}
               /\ Alive => ENABLED MainLoginFailed)
    /\ [][MainLoginFailed => (main'.exitCode = 1 /\ ~Alive')]_vars
    /\ [][(main.pc = "login" /\ main'.pc \notin {"login", "exited"})
            => logins[1].outcome = "resolved"]_vars

\* the login was rejected and main() has exited with code 1 right after its
\* call of login()
C39_Witness ==
    /\ logins[1].outcome = "rejected"
    /\ main.pc = "exited"
    /\ main.exitCode = 1
    /\ main.trace = <<"login">>
    /\ ~main.gcCreated
    /\ ~main.serverStarted

\* C40: in every record whose equipped medal is not null, the equipped medal
\* is the identifier of one of the record's medals.
C40_EquippedIsAMedal ==
    (parsedProfile.parsed /\ parsedProfile.equippedMedal # NullEntry)
        => /\ IsNumber(parsedProfile.equippedMedal)
           /\ \E i \in DOMAIN parsedProfile.medals :
                 parsedProfile.medals[i].medalId = parsedProfile.equippedMedal.value

\* C40, the part that holds: an equipped medal that is a number is the
\* identifier of one of the record's medals.
C40_NumericEquippedIsAMedal ==
    (parsedProfile.parsed /\ IsNumber(parsedProfile.equippedMedal))
        => \E i \in DOMAIN parsedProfile.medals :
              parsedProfile.medals[i].medalId = parsedProfile.equippedMedal.value

====
